---- MODULE Spec2Model ----
(***************************************************************************)
(* The media-sync engine of the settings screen (src/unnamed/part_002):    *)
(* runSync, cancelSync, pickSyncFolder and the helpers they call.          *)
(*                                                                         *)
(* A file name is a sequence of characters (one-character strings, and the *)
(* conflict suffix " (k)" as one token); a path is a sequence of segments, *)
(* each a file name; "/" separates the segments, so an empty segment <<>>  *)
(* stands for a doubled, leading or trailing slash.                        *)
(*                                                                         *)
(* JavaScript runs one handler at a time: an action of this model is the   *)
(* code between two awaits that wait for I/O.  The operators that take a   *)
(* machine m (the locals of the run, SyncProgress and syncRunning) and the *)
(* cancel flag c compute what runSync does from one such await to the next. *)
(***************************************************************************)
EXTENDS Integers, Sequences, FiniteSets, TLC

(***************************************************************************)
(* Bounds of the model.  The program constants below are scaled down: the  *)
(* source has a chunk of 256 KiB .. 2 MiB, STATUS_BATCH_SIZE = 60,         *)
(* MAX_RENAME_ATTEMPTS = 50, a progress update every 10 items,             *)
(* LIST_PAGE_SIZE = 200 and DELETE_BATCH_SIZE = 100.  Sizes and offsets    *)
(* are counted in the unit of ChunkBytes.                                  *)
(***************************************************************************)
MaxFiles == 2
MaxSize == 2
ChunkBytes == 1
STATUS_BATCH_SIZE == 2
MAX_RENAME_ATTEMPTS == 2
PROGRESS_EVERY == 2
LIST_PAGE_SIZE == 2
DELETE_BATCH_SIZE == 1

SCAN_PAGE_SIZE == 150

Max(S) == CHOOSE x \in S : \A y \in S : y <= x
MaxOf(a, b) == IF a >= b THEN a ELSE b
MinOf(a, b) == IF a <= b THEN a ELSE b

(***************************************************************************)
(* Path and name utilities.                                                *)
(***************************************************************************)
SuffixToken(attempt) == " (" \o ToString(attempt) \o ")"

RECURSIVE StripLeading(_)
StripLeading(p) ==
    IF p # <<>> /\ Head(p) = <<>> THEN StripLeading(Tail(p)) ELSE p

RECURSIVE StripTrailing(_)
StripTrailing(p) ==
    IF p # <<>> /\ p[Len(p)] = <<>> THEN StripTrailing(SubSeq(p, 1, Len(p) - 1)) ELSE p

normalizeUploadPath(value) == StripTrailing(StripLeading(value))

RECURSIVE DropSegments(_)
DropSegments(p) ==
    IF p = <<>> THEN <<>>
    ELSE IF Head(p) = <<>> \/ Head(p) = <<".">> THEN DropSegments(Tail(p))
    ELSE <<Head(p)>> \o DropSegments(Tail(p))

joinUploadPath(a, b) ==
    DropSegments(normalizeUploadPath(a)) \o DropSegments(normalizeUploadPath(b))

LastIndexOf(s, c) ==
    LET I == {i \in 1..Len(s) : s[i] = c}
    IN  IF I = {} THEN 0 ELSE Max(I)

splitNameAndExt(fileName) ==
    LET lastDot == LastIndexOf(fileName, ".")
    IN  IF lastDot <= 1
        THEN [name |-> fileName, ext |-> <<>>]
        ELSE [name |-> SubSeq(fileName, 1, lastDot - 1),
              ext |-> SubSeq(fileName, lastDot, Len(fileName))]

addConflictSuffix(fileName, attempt) ==
    IF attempt <= 0 THEN fileName
    ELSE LET parts == splitNameAndExt(fileName)
         IN  parts.name \o <<SuffixToken(attempt)>> \o parts.ext

renameRemoteTarget(remoteTarget, attempt) ==
    LET normalized == normalizeUploadPath(remoteTarget)
    IN  IF normalized = <<>> THEN normalized
        ELSE SubSeq(normalized, 1, Len(normalized) - 1)
             \o <<addConflictSuffix(normalized[Len(normalized)], attempt)>>

(* A rename that clears the overwrite flag but keeps the name. *)
renameCandidateKeepsName(candidate, attempt) ==
    IF attempt <= 0 THEN candidate ELSE [candidate EXCEPT !.overwrite = FALSE]

renameCandidateForAttempt(candidate, attempt) ==
    IF attempt <= 0 THEN candidate
    ELSE IF candidate.kind = "camera"
    THEN [candidate EXCEPT !.displayName = addConflictSuffix(candidate.displayName, attempt),
                           !.overwrite = FALSE]
    ELSE LET nextTarget == renameRemoteTarget(candidate.remoteTarget, attempt)
         IN  [candidate EXCEPT !.remoteTarget = nextTarget,
                               !.displayName = nextTarget,
                               !.overwrite = FALSE]


(***************************************************************************)
(* State.                                                                  *)
(*   cfg          the settings and server context a runSync closure reads  *)
(*   state        React state that handlers read through their closure     *)
(*   rendered     the values of `state` in the closures of the last render *)
(*   syncProgress the SyncProgress object (functional updates apply in     *)
(*                order, so it is modelled as updated at once)             *)
(*   cancelRef    cancelRef.current                                        *)
(*   runs         the local variables and position of each runSync call    *)
(*   world        what Init fixes about the environment: the closures that *)
(*                may be invoked, the number of local items and the names  *)
(*                they may have, the remote tree, and whether a run keeps  *)
(*                the record `decisions` of what applyStatusBatch did with *)
(*                each candidate                                           *)
(*   server       the number of bytes the server holds of each remote file *)
(*                (written only where the server is one that keeps a       *)
(*                per-file offset and accepts a chunk only at that offset) *)
(***************************************************************************)
VARIABLES cfg, state, rendered, syncProgress, cancelRef, runs, world, server

vars == <<cfg, state, rendered, syncProgress, cancelRef, runs, world, server>>

RunIds == {1, 2}

NameA == <<"a", ".", "j">>
NameA1 == <<"a", SuffixToken(1), ".", "j">>
Names == {NameA, NameA1}
Sizes == {0, MaxSize}
BasePath == <<<<"b">>>>
Statuses == {"ready", "complete", "exists", "error"}
ReplyOffsets == {0, 1, MaxSize, MaxSize + 1}

Stages == {"idle", "planning", "uploading", "mirroring", "done", "error", "cancelled"}
Terminal == {"done", "error", "cancelled"}

syncProgressBase ==
    [stage |-> "idle", discovered |-> 0, planned |-> 0, skipped |-> 0, failed |-> 0,
     uploaded |-> 0, plannedBytes |-> 0, uploadedBytes |-> 0,
     remoteDeleted |-> 0, remoteDeleteFailed |-> 0, error |-> ""]

NoReq == [kind |-> "none"]
NoRaw == [kept |-> FALSE, items |-> <<>>]
NoProbe == [kind |-> "none", status |-> "", attempt |-> 0, index |-> 0]
NoItem == [present |-> FALSE, status |-> "", ok |-> FALSE, offset |-> 0]
NoCandidate ==
    [kind |-> "none", displayName |-> <<>>, size |-> 0, initialOffset |-> 0,
     remoteTarget |-> <<>>, monthBucket |-> "", overwrite |-> FALSE]

(* The locals of one runSync invocation; pc = "idle" when none is running. *)
(* nplanned is candidates.length once planning is over; counted is the     *)
(* record, kept for the state that follows, of the counters the run had    *)
(* when it wrote stage cancelled or done.                                  *)
IdleRun ==
    [pc |-> "idle", source |-> "camera", mirror |-> FALSE, policy |-> "skip",
     candidates |-> <<>>, discovered |-> 0, plannedBytes |-> 0, skipped |-> 0, failed |-> 0,
     pending |-> <<>>, hasNext |-> FALSE, libLeft |-> 0, pageLeft |-> 0,
     folderCandidates |-> <<>>, findex |-> 0, localMirrorTargets |-> {},
     batch |-> <<>>, statusItems |-> <<>>, bindex |-> 0, attempt |-> 0, cont |-> "",
     cidx |-> 0, offset |-> 0, handleOpen |-> FALSE, chunkLen |-> 0,
     uploaded |-> 0, uploadedBytes |-> 0, posts |-> <<>>, lastDone |-> <<>>,
     remoteFiles |-> <<>>, queue |-> <<>>, currentPath |-> <<>>, listOffset |-> 0, toDelete |-> <<>>, dindex |-> 0,
     remoteDeleted |-> 0, remoteDeleteFailed |-> 0,
     decisions |-> <<>>, nplanned |-> 0, counted |-> <<>>, rawItems |-> NoRaw,
     lastProbe |-> NoProbe, enumerated |-> <<>>, sent |-> <<>>, localExisting |-> {},
     unlisted |-> 0,
     req |-> NoReq]

(* Positions where a handler is between two awaits of nothing but local,   *)
(* synchronous work whose outcome the environment decides: no other        *)
(* handler runs there.                                                     *)
BusyPcs == {"open", "read"}

Machine(rn, sp, sr) == [rn |-> rn, sp |-> sp, sr |-> sr]

(* setSyncStage: a patch of some fields of SyncProgress. *)
setSyncStage(sp, patch) ==
    [f \in DOMAIN sp |-> IF f \in DOMAIN patch THEN patch[f] ELSE sp[f]]

(***************************************************************************)
(* The end of runSync: finally, catch, and the final stage.                *)
(***************************************************************************)
Finish(m) == [m EXCEPT !.rn = IdleRun, !.sr = FALSE]

EndError(m, msg) ==
    Finish([m EXCEPT !.sp = setSyncStage(m.sp, [stage |-> "error", error |-> msg])])

AwaitRefresh(m) ==
    [m EXCEPT !.rn = [IdleRun EXCEPT !.pc = "refresh", !.req = [kind |-> "refresh"],
                                     !.lastDone = m.rn.lastDone,
                                     !.counted = m.rn.counted,
                                     !.enumerated = m.rn.enumerated,
                                     !.sent = m.rn.sent,
                                     !.unlisted = m.rn.unlisted]]

(* The counters of the run: its locals, planned being candidates.length. *)
countersOf(rn, planned) ==
    [discovered |-> rn.discovered, planned |-> planned, skipped |-> rn.skipped,
     failed |-> rn.failed, plannedBytes |-> rn.plannedBytes,
     uploaded |-> rn.uploaded, uploadedBytes |-> rn.uploadedBytes]

(* A final stage that does not look at the cancel flag. *)
FinalStageDone(m, cancelled) ==
    AwaitRefresh(
        [m EXCEPT !.sp = setSyncStage(m.sp,
            [stage |-> "done",
             uploaded |-> m.rn.uploaded, uploadedBytes |-> m.rn.uploadedBytes,
             remoteDeleted |-> m.rn.remoteDeleted,
             remoteDeleteFailed |-> m.rn.remoteDeleteFailed]),
                  !.rn.counted = countersOf(m.rn, m.rn.nplanned)])

FinalStage(m, cancelled) ==
    AwaitRefresh(
        [m EXCEPT !.sp = setSyncStage(m.sp,
            [stage |-> IF cancelled THEN "cancelled" ELSE "done",
             uploaded |-> m.rn.uploaded, uploadedBytes |-> m.rn.uploadedBytes,
             remoteDeleted |-> m.rn.remoteDeleted,
             remoteDeleteFailed |-> m.rn.remoteDeleteFailed]),
                  !.rn.counted = countersOf(m.rn, m.rn.nplanned)])

(***************************************************************************)
(* The mirror pass (runSync 1085..1117, fetchRemoteFilesForMirror).        *)
(***************************************************************************)
RECURSIVE SeqToSet(_)
SeqToSet(q) == IF q = <<>> THEN {} ELSE {Head(q)} \cup SeqToSet(Tail(q))

RECURSIVE FilterNotIn(_, _)
FilterNotIn(q, S) ==
    IF q = <<>> THEN <<>>
    ELSE IF Head(q) \in S THEN FilterNotIn(Tail(q), S)
    ELSE <<Head(q)>> \o FilterNotIn(Tail(q), S)

(* A deletion list that keeps every remote file. *)
toDeleteAll(remoteFiles, localMirrorTargets) == remoteFiles

(* Array.from(remoteFiles).filter(p => !localMirrorTargets.has(p)) *)
toDeleteOf(remoteFiles, localMirrorTargets) == FilterNotIn(remoteFiles, localMirrorTargets)

DeleteLoop(m, c) ==
    IF m.rn.dindex < Len(m.rn.toDelete) /\ ~c
    THEN LET batch == SubSeq(m.rn.toDelete, m.rn.dindex + 1,
                             MinOf(m.rn.dindex + DELETE_BATCH_SIZE, Len(m.rn.toDelete)))
         IN  [m EXCEPT !.rn.pc = "mirror_delete",
                       !.rn.req = [kind |-> "delete", paths |-> batch]]
    ELSE FinalStage(m, c)

DeletePhase(m, c) ==
    DeleteLoop([m EXCEPT !.rn.toDelete = toDeleteOf(m.rn.remoteFiles, m.rn.localMirrorTargets),
                         !.rn.dindex = 0,
                         !.rn.queue = <<>>], c)

(* The head of the inner while of fetchRemoteFilesForMirror. *)
MirrorInner(m, c) ==
    IF ~c
    THEN [m EXCEPT !.rn.pc = "mirror_list",
                   !.rn.req = [kind |-> "list", path |-> m.rn.currentPath,
                               offset |-> m.rn.listOffset]]
    ELSE DeletePhase(m, c)

(* The head of the outer while: queue.pop() takes the last element. *)
MirrorOuter(m, c) ==
    IF m.rn.queue # <<>> /\ ~c
    THEN MirrorInner([m EXCEPT !.rn.currentPath = m.rn.queue[Len(m.rn.queue)],
                               !.rn.queue = SubSeq(m.rn.queue, 1, Len(m.rn.queue) - 1),
                               !.rn.listOffset = 0], c)
    ELSE DeletePhase(m, c)

(* A mirror pass that does not look at the source and the mirror switch. *)
MirrorStartAnySource(m, c) ==
    IF ~c
    THEN MirrorOuter([m EXCEPT !.sp = setSyncStage(m.sp, [stage |-> "mirroring"]),
                               !.rn.queue = <<BasePath>>,
                               !.rn.remoteFiles = <<>>], c)
    ELSE FinalStage(m, c)

MirrorStart(m, c) ==
    IF ~c /\ m.rn.source = "folder" /\ m.rn.mirror
    THEN MirrorOuter([m EXCEPT !.sp = setSyncStage(m.sp, [stage |-> "mirroring"]),
                               !.rn.queue = <<BasePath>>,
                               !.rn.remoteFiles = <<>>], c)
    ELSE FinalStage(m, c)

(***************************************************************************)
(* The upload loop (runSync 992..1083).                                    *)
(***************************************************************************)
CurrentCandidate(rn) == rn.candidates[rn.cidx]

(* for (const candidate of candidates): the head of the loop. *)
UploadLoop(m, c) ==
    IF m.rn.cidx <= Len(m.rn.candidates) /\ ~c
    THEN LET candidate == m.rn.candidates[m.rn.cidx]
         IN  [m EXCEPT !.rn.pc = "open",
                       !.rn.offset = MaxOf(0, MinOf(candidate.initialOffset, candidate.size)),
                       !.rn.posts = <<>>,
                       !.rn.req = NoReq]
    ELSE MirrorStart([m EXCEPT !.rn.req = NoReq, !.rn.candidates = <<>>, !.rn.cidx = 0,
                               !.rn.offset = 0, !.rn.posts = <<>>], c)

(* After the while loop of one candidate: count it, close the handle, go on. *)
CandidateEnd(m, c) ==
    LET candidate == CurrentCandidate(m.rn)
        counted == m.rn.offset >= candidate.size
        m1 == IF counted
              THEN [m EXCEPT !.rn.uploaded = @ + 1,
                             !.rn.lastDone = [size |-> candidate.size, offset |-> m.rn.offset],
                             !.sp = setSyncStage(m.sp, [uploaded |-> m.rn.uploaded + 1])]
              ELSE m
    IN  UploadLoop([m1 EXCEPT !.rn.handleOpen = FALSE,
                              !.rn.chunkLen = 0,
                              !.rn.cidx = @ + 1], c)

(* while (offset < candidate.size && !cancelRef.current) *)
ChunkLoop(m, c) ==
    IF m.rn.offset < CurrentCandidate(m.rn).size /\ ~c
    THEN [m EXCEPT !.rn.pc = "read", !.rn.req = NoReq]
    ELSE CandidateEnd(m, c)

(* A throw inside try { ... } finally { safeCloseHandle(handle) }. *)
ThrowInUpload(m, msg) == EndError([m EXCEPT !.rn.handleOpen = FALSE], msg)

(* The server's offset taken as it is. *)
nextOffsetFromServer(offset, chunkLen, serverOffset) == serverOffset

(* The new local offset after a successful chunk response. *)
nextOffsetOf(offset, chunkLen, serverOffset) == MaxOf(offset + chunkLen, serverOffset)

AfterChunkOk(m, c, serverOffset) ==
    LET nextOffset == nextOffsetOf(m.rn.offset, m.rn.chunkLen, serverOffset)
        advanced == MaxOf(0, nextOffset - m.rn.offset)
    IN  ChunkLoop([m EXCEPT !.rn.offset = nextOffset,
                            !.rn.uploadedBytes = @ + advanced,
                            !.sp = setSyncStage(m.sp,
                                     [uploadedBytes |-> m.rn.uploadedBytes + advanced])], c)

(* A recovery that accepts an offset equal to the local one. *)
recoveryResolvesNotBehind(serverOffset, offset) == ~(serverOffset < offset)

(* Whether the offset reported by the recovery status request can be used. *)
recoveryResolves(serverOffset, offset) == ~(serverOffset <= offset)

AfterRecovery(m, c, serverOffset) ==
    IF ~recoveryResolves(serverOffset, m.rn.offset)
    THEN ThrowInUpload(m, "Upload offset mismatch could not be resolved")
    ELSE LET advanced == serverOffset - m.rn.offset
         IN  ChunkLoop([m EXCEPT !.rn.offset = serverOffset,
                                 !.rn.uploadedBytes = @ + advanced,
                                 !.sp = setSyncStage(m.sp,
                                     [uploadedBytes |-> m.rn.uploadedBytes + advanced])], c)

(***************************************************************************)
(* The end of planning (runSync 964..994).                                 *)
(***************************************************************************)
AfterPlanning(m, c) ==
    IF c
    THEN [Finish([m EXCEPT !.sp = setSyncStage(m.sp, [stage |-> "cancelled"])])
            EXCEPT !.rn.counted = countersOf(m.rn, Len(m.rn.candidates))]
    ELSE UploadLoop(
           [m EXCEPT !.sp = setSyncStage(m.sp,
                        [stage |-> "uploading", discovered |-> m.rn.discovered,
                         planned |-> Len(m.rn.candidates), skipped |-> m.rn.skipped,
                         failed |-> m.rn.failed, plannedBytes |-> m.rn.plannedBytes,
                         uploadedBytes |-> 0, uploaded |-> 0]),
                     !.rn.cidx = 1, !.rn.uploaded = 0, !.rn.uploadedBytes = 0,
                     !.rn.nplanned = Len(m.rn.candidates),
                     !.rn.pending = <<>>, !.rn.batch = <<>>, !.rn.statusItems = <<>>,
                     !.rn.rawItems = NoRaw,
                     !.rn.folderCandidates = <<>>, !.rn.findex = 0, !.rn.cont = ""], c)

(***************************************************************************)
(* Planning: status batches, classification and rename resolution          *)
(* (runSync 719..830), then the two enumerators (832..962).                *)
(***************************************************************************)
(* The configured policy used as it is. *)
configuredConflictPolicy(source, mirror, policy) == policy

effectiveConflictPolicy(source, mirror, policy) ==
    IF source = "folder" /\ mirror /\ policy = "rename" THEN "overwrite" ELSE policy

overwriteUploads(rn) == rn.policy = "overwrite"

buildStatusPayload(candidate, overwrite) ==
    IF candidate.kind = "camera"
    THEN [path |-> BasePath, file |-> candidate.displayName, size |-> candidate.size,
          overwrite |-> overwrite, camera |-> 1, cameraMonth |-> candidate.monthBucket]
    ELSE [target |-> candidate.remoteTarget, size |-> candidate.size,
          overwrite |-> overwrite]

(* The values the index field of a response entry may have: an integer, a *)
(* number that is not an integer, null, or no value at all.                *)
IntIndex(k) == [t |-> "int", v |-> k]
NullIndex == [t |-> "null", v |-> 0]
FractionIndex == [t |-> "fraction", v |-> 0]
MissingIndex == [t |-> "missing", v |-> 0]

(* Number(entry?.index) with Number.isInteger of the result: Number(null)  *)
(* is 0, Number(undefined) is NaN.                                         *)
ToNumber(index) ==
    CASE index.t = "int" -> [isInteger |-> TRUE, value |-> index.v]
      [] index.t = "null" -> [isInteger |-> TRUE, value |-> 0]
      [] OTHER -> [isInteger |-> FALSE, value |-> 0]

(* byIndex[index] = entry for every entry with an integer index in range;  *)
(* entries carry JavaScript's 0-based index.                               *)
RECURSIVE normalizeInto(_, _, _)
normalizeInto(byIndex, rawItems, expected) ==
    IF rawItems = <<>> THEN byIndex
    ELSE LET entry == Head(rawItems)
             index == ToNumber(entry.index)
         IN  IF ~index.isInteger \/ index.value < 0 \/ index.value >= expected
             THEN normalizeInto(byIndex, Tail(rawItems), expected)
             ELSE normalizeInto(
                    [byIndex EXCEPT ![index.value + 1] =
                        [present |-> TRUE, status |-> entry.status, ok |-> entry.ok,
                         offset |-> entry.offset]],
                    Tail(rawItems), expected)

normalizeBatchStatusItems(rawItems, expected) ==
    normalizeInto([i \in 1..expected |-> NoItem], rawItems, expected)

(* String(statusItem.status || (statusItem.ok ? 'ready' : code || 'error')) *)
uploadStatusOf(statusItem) ==
    IF statusItem.status # "" THEN statusItem.status
    ELSE IF statusItem.ok THEN "ready" ELSE "error"

(* The branch applyStatusBatch takes for one candidate. *)
ClassifyStatus(statusItem, candidate, policy) ==
    IF ~statusItem.present THEN "failed"
    ELSE LET uploadStatus == uploadStatusOf(statusItem)
             offset == MaxOf(0, statusItem.offset)
         IN  IF uploadStatus = "ready" THEN "ready"
             ELSE IF uploadStatus = "complete" \/ offset >= candidate.size THEN "skipped"
             ELSE IF uploadStatus = "exists"
                  THEN IF policy = "skip" THEN "skipped"
                       ELSE IF policy = "rename" THEN "rename"
                       ELSE "failed"
             ELSE "failed"

(* What resolveRenameCandidate returns for a successful probe response. *)
ProbeResult(status, rawOffset, size) ==
    LET uploadStatus == IF status = "" THEN "ready" ELSE status
        offset == MaxOf(0, rawOffset)
    IN  IF uploadStatus = "complete" \/ offset >= size THEN "skipped" ELSE "ready"

(* A candidate planned from the start of the file, whatever the offset. *)
readyCandidateFromStart(candidate, rawOffset, overwrite) ==
    [candidate EXCEPT !.initialOffset = 0, !.overwrite = overwrite]

(* The candidate as addReadyCandidate leaves it. *)
readyCandidate(candidate, rawOffset, overwrite) ==
    [candidate EXCEPT !.initialOffset = MaxOf(0, MinOf(rawOffset, candidate.size)),
                      !.overwrite = overwrite]

addReadyCandidate(rn, candidate, rawOffset, overwrite) ==
    LET ready == readyCandidate(candidate, rawOffset, overwrite)
    IN  [rn EXCEPT !.plannedBytes = @ + MaxOf(0, candidate.size - ready.initialOffset),
                   !.candidates = Append(@, ready)]

(* renameCandidateForAttempt builds a new object: the candidate it is      *)
(* given is left as it was.                                                *)
originalAfterRename(candidate, attempt) == candidate

(* The record of one pass of the for loop of applyStatusBatch: the         *)
(* candidate as it was in the batch, the status entry read for it, the     *)
(* counter or list it went to, and the candidate pushed to `candidates`;    *)
(* with them the position in the batch and, where it is kept, the response *)
(* array as it arrived.                                                    *)
Decided(rn, candidate, statusItem, result, planned) ==
    IF world.logDecisions
    THEN [rn EXCEPT !.decisions = Append(@, [candidate |-> candidate, item |-> statusItem,
                                             policy |-> rn.policy, result |-> result,
                                             planned |-> planned, index |-> rn.bindex,
                                             raw |-> rn.rawItems])]
    ELSE rn

planningProgress(m) ==
    setSyncStage(m.sp, [stage |-> "planning", discovered |-> m.rn.discovered,
                        planned |-> Len(m.rn.candidates), skipped |-> m.rn.skipped,
                        failed |-> m.rn.failed, plannedBytes |-> m.rn.plannedBytes])

(* Where the record is kept: the candidates pushed to pendingCandidates so *)
(* far (enumerated) and those sent in batch status requests (sent).        *)
Pushed(rn, candidate) ==
    IF world.logDecisions THEN [rn EXCEPT !.enumerated = Append(@, candidate)] ELSE rn

(* applyStatusBatch up to its await of fetchUploadStatusBatch. *)
IssueBatch(m, batch, cont) ==
    [m EXCEPT !.rn.pc = "status_batch", !.rn.batch = batch, !.rn.cont = cont,
              !.rn.pending = <<>>, !.rn.bindex = 0, !.rn.attempt = 0,
              !.rn.sent = IF world.logDecisions THEN @ \o batch ELSE @,
              !.rn.req = [kind |-> "status_batch",
                          items |-> [i \in 1..Len(batch) |->
                                       buildStatusPayload(batch[i], overwriteUploads(m.rn))]]]

(* The end of the enumeration without the flush of what is pending. *)
TailFlushDropsPending(m, c) == AfterPlanning(m, c)

(* if (!cancelRef.current && pendingCandidates.length) applyStatusBatch(...) *)
TailFlush(m, c) ==
    IF ~c /\ m.rn.pending # <<>>
    THEN IssueBatch(m, m.rn.pending, "tail")
    ELSE AfterPlanning(m, c)

RECURSIVE FolderLoop(_, _)
FolderLoop(m, c) ==
    IF m.rn.findex < Len(m.rn.folderCandidates) /\ ~c
    THEN LET candidate == m.rn.folderCandidates[m.rn.findex + 1]
             m1 == [m EXCEPT !.rn = Pushed(@, candidate),
                             !.rn.localMirrorTargets = @ \cup {candidate.remoteTarget},
                             !.rn.pending = Append(@, candidate),
                             !.rn.findex = @ + 1]
             m2 == IF m1.rn.findex % PROGRESS_EVERY = 0
                   THEN [m1 EXCEPT !.sp = planningProgress(m1)]
                   ELSE m1
         IN  IF Len(m2.rn.pending) >= STATUS_BATCH_SIZE
             THEN IssueBatch(m2, m2.rn.pending, "folder")
             ELSE FolderLoop(m2, c)
    ELSE TailFlush(m, c)

(* while (hasNext && !cancelRef.current) page = await getAssetsAsync(...) *)
CameraLoop(m, c) ==
    IF m.rn.hasNext /\ ~c
    THEN [m EXCEPT !.rn.pc = "page", !.rn.req = [kind |-> "page", first |-> SCAN_PAGE_SIZE]]
    ELSE TailFlush(m, c)

(* for (const asset of page.assets) up to await getAssetInfoAsync(asset.id) *)
AssetLoop(m, c) ==
    IF m.rn.pageLeft > 0 /\ ~c
    THEN LET m1 == [m EXCEPT !.rn.discovered = @ + 1, !.rn.pageLeft = @ - 1,
                             !.rn.pc = "asset_info", !.rn.req = [kind |-> "asset_info"]]
         IN  IF m1.rn.discovered % PROGRESS_EVERY = 0
             THEN [m1 EXCEPT !.sp = planningProgress(m1)]
             ELSE m1
    ELSE CameraLoop([m EXCEPT !.rn.pageLeft = 0], c)

ContinueAfterBatch(m, c) ==
    LET m1 == [m EXCEPT !.rn.batch = <<>>, !.rn.statusItems = <<>>, !.rn.bindex = 0,
                        !.rn.attempt = 0, !.rn.cont = "", !.rn.rawItems = NoRaw]
    IN  CASE m.rn.cont = "asset" -> AssetLoop(m1, c)
          [] m.rn.cont = "folder" -> FolderLoop(m1, c)
          [] OTHER -> AfterPlanning(m1, c)

RECURSIVE ApplyLoop(_, _)

(* The head of the for loop of resolveRenameCandidate. *)
RenameLoop(m, c) ==
    LET candidate == m.rn.batch[m.rn.bindex + 1]
    IN  IF m.rn.attempt <= MAX_RENAME_ATTEMPTS /\ ~c
        THEN LET renamedCandidate == renameCandidateForAttempt(candidate, m.rn.attempt)
             IN  [m EXCEPT !.rn.pc = "rename_probe",
                           !.rn.batch[m.rn.bindex + 1] =
                               originalAfterRename(candidate, m.rn.attempt),
                           !.rn.req = [kind |-> "status", attempt |-> m.rn.attempt,
                                       candidate |-> renamedCandidate,
                                       item |-> buildStatusPayload(renamedCandidate, FALSE)]]
        ELSE ApplyLoop([m EXCEPT
                 !.rn = [Decided(m.rn, candidate, m.rn.statusItems[m.rn.bindex + 1],
                                 "failed", NoCandidate)
                         EXCEPT !.failed = @ + 1, !.bindex = @ + 1, !.req = NoReq]], c)

(* for (index = 0; index < batchCandidates.length && !cancelRef.current; ...) *)
ApplyLoop(m, c) ==
    IF m.rn.bindex < Len(m.rn.batch) /\ ~c
    THEN LET candidate == m.rn.batch[m.rn.bindex + 1]
             statusItem == m.rn.statusItems[m.rn.bindex + 1]
             branch == ClassifyStatus(statusItem, candidate, m.rn.policy)
         IN  CASE branch = "ready" ->
                    ApplyLoop([m EXCEPT
                        !.rn = [addReadyCandidate(
                                    Decided(m.rn, candidate, statusItem, "planned",
                                            readyCandidate(candidate,
                                                MaxOf(0, statusItem.offset),
                                                overwriteUploads(m.rn))),
                                    candidate,
                                    MaxOf(0, statusItem.offset), overwriteUploads(m.rn))
                                EXCEPT !.bindex = @ + 1,
                                       !.batch[m.rn.bindex + 1] =
                                           readyCandidate(candidate, MaxOf(0, statusItem.offset),
                                                          overwriteUploads(m.rn))]], c)
               [] branch = "skipped" ->
                    ApplyLoop([m EXCEPT
                        !.rn = [Decided(m.rn, candidate, statusItem, "skipped", NoCandidate)
                                EXCEPT !.skipped = @ + 1, !.bindex = @ + 1]], c)
               [] branch = "rename" ->
                    RenameLoop([m EXCEPT !.rn.attempt = 1], c)
               [] OTHER ->
                    ApplyLoop([m EXCEPT
                        !.rn = [Decided(m.rn, candidate, statusItem, "failed", NoCandidate)
                                EXCEPT !.failed = @ + 1, !.bindex = @ + 1]], c)
    ELSE ContinueAfterBatch([m EXCEPT !.rn.req = NoReq], c)

(* applyStatusBatch after the rename resolution of one candidate returned. *)
AfterRename(m, c, type, renamedCandidate, offset) ==
    LET candidate == m.rn.batch[m.rn.bindex + 1]
        statusItem == m.rn.statusItems[m.rn.bindex + 1]
        rn1 == CASE type = "ready" ->
                      addReadyCandidate(
                          Decided(m.rn, candidate, statusItem, "planned",
                                  readyCandidate(renamedCandidate, offset, FALSE)),
                          renamedCandidate, offset, FALSE)
                 [] type = "skipped" ->
                      [Decided(m.rn, candidate, statusItem, "skipped", NoCandidate)
                       EXCEPT !.skipped = @ + 1]
                 [] OTHER ->
                      [Decided(m.rn, candidate, statusItem, "failed", NoCandidate)
                       EXCEPT !.failed = @ + 1]
    IN  ApplyLoop([m EXCEPT !.rn = [rn1 EXCEPT !.bindex = @ + 1, !.attempt = 0,
                                               !.req = NoReq]], c)

(***************************************************************************)
(* The local folder and its walk (collectLocalFolderFiles,                 *)
(* buildFolderCandidates).  A file of size -1 has an invalid size.         *)
(***************************************************************************)
FileEntry(name, size) ==
    [isDir |-> FALSE, name |-> name, size |-> size, listable |-> FALSE, entries |-> <<>>]
DirEntry(name, listable, entries) ==
    [isDir |-> TRUE, name |-> name, size |-> 0, listable |-> listable, entries |-> entries]

NameD == <<"d">>

EntryChoices(names) ==
    {FileEntry(n, sz) : n \in names, sz \in Sizes \cup {-1}}
      \cup {DirEntry(NameD, FALSE, <<>>), DirEntry(NameD, FALSE, <<FileEntry(NameA, MaxSize)>>),
            DirEntry(NameD, TRUE, <<FileEntry(NameA, MaxSize)>>)}

LocalTrees(maxFiles, names) ==
    {DirEntry(<<>>, FALSE, <<>>)} \cup
    {DirEntry(<<>>, TRUE, e) :
        e \in {q \in UNION {[1..k -> EntryChoices(names)] : k \in 0..maxFiles} :
                 \A i, j \in 1..Len(q) : i # j => q[i].name # q[j].name}}

(* The for loop over the entries of one listed directory. *)
RECURSIVE walkEntries(_, _, _)
walkEntries(entries, relPath, acc) ==
    IF entries = <<>> THEN acc
    ELSE LET entry == Head(entries)
             rel == joinUploadPath(relPath, <<entry.name>>)
         IN  IF entry.isDir
             THEN walkEntries(Tail(entries), relPath,
                     [acc EXCEPT !.stack = Append(@, [dir |-> entry, relPath |-> rel])])
             ELSE IF rel = <<>> \/ entry.size < 0
             THEN walkEntries(Tail(entries), relPath,
                     [acc EXCEPT !.discovered = @ + 1, !.failed = @ + 1])
             ELSE walkEntries(Tail(entries), relPath,
                     [acc EXCEPT !.discovered = @ + 1,
                                 !.files = Append(@, [relativePath |-> rel,
                                                      size |-> entry.size])])

(* while (stack.length) { current = stack.pop(); ... } *)
RECURSIVE walkStack(_)
walkStack(acc) ==
    IF acc.stack = <<>> THEN acc
    ELSE LET current == acc.stack[Len(acc.stack)]
             rest == [acc EXCEPT !.stack = SubSeq(@, 1, Len(@) - 1)]
         IN  IF ~current.dir.listable
             THEN walkStack([rest EXCEPT !.failed = @ + 1])
             ELSE walkStack(walkEntries(current.dir.entries, current.relPath, rest))

(* The remote targets of all the files under a directory, whether or not  *)
(* the walk can list the directory or read the size of the file.           *)
RECURSIVE existingTargets(_, _)
existingTargets(dir, relPath) ==
    UNION {LET entry == dir.entries[i]
               rel == joinUploadPath(relPath, <<entry.name>>)
           IN  IF entry.isDir THEN existingTargets(entry, rel)
               ELSE {joinUploadPath(BasePath, rel)} : i \in 1..Len(dir.entries)}

(* The number of directories the walk reaches and cannot list. *)
RECURSIVE unlistedDirs(_)
unlistedDirs(dir) ==
    IF ~dir.listable THEN 1
    ELSE LET D == {i \in 1..Len(dir.entries) : dir.entries[i].isDir}
             count[S \in SUBSET D] ==
                 IF S = {} THEN 0
                 ELSE LET i == CHOOSE k \in S : TRUE
                      IN  unlistedDirs(dir.entries[i]) + count[S \ {i}]
         IN  count[D]

collectLocalFolderFiles(root) ==
    walkStack([stack |-> <<[dir |-> root, relPath |-> <<>>]>>, files |-> <<>>,
               discovered |-> 0, failed |-> 0])

buildFolderCandidates(files) ==
    [i \in 1..Len(files) |->
        [kind |-> "folder", displayName |-> files[i].relativePath, size |-> files[i].size,
         initialOffset |-> 0, remoteTarget |-> joinUploadPath(BasePath, files[i].relativePath),
         monthBucket |-> "", overwrite |-> FALSE]]

cameraCandidate(fileName, size) ==
    [kind |-> "camera", displayName |-> fileName, size |-> size, initialOffset |-> 0,
     remoteTarget |-> <<>>, monthBucket |-> "2026-01", overwrite |-> FALSE]

(***************************************************************************)
(* The server's answers, as the client sees them.                          *)
(***************************************************************************)
Omitted == [status |-> "omitted", offset |-> 0]
ItemReplyChoices == {Omitted} \cup [status : Statuses, offset : ReplyOffsets]

RECURSIVE rawItemsOf(_, _)
rawItemsOf(f, i) ==
    IF i > Len(f) THEN <<>>
    ELSE IF f[i] = Omitted THEN rawItemsOf(f, i + 1)
    ELSE <<[index |-> IntIndex(i - 1), status |-> f[i].status, offset |-> f[i].offset,
            ok |-> f[i].status \in {"ready", "complete"}]>> \o rawItemsOf(f, i + 1)

RECURSIVE Reverse(_)
Reverse(q) == IF q = <<>> THEN <<>> ELSE Reverse(Tail(q)) \o <<Head(q)>>

RemoteFile(path) == [path |-> path, isDir |-> FALSE, valid |-> TRUE]
RemoteDir(path) == [path |-> path, isDir |-> TRUE, valid |-> TRUE]

PathZ == <<<<"b">>, <<"z", ".", "j">>>>
PathD == <<<<"b">>, NameD>>

(* The remote trees the server may hold under the base path. *)
RemoteTrees ==
    { [p \in {BasePath, PathD} |-> <<>>],
      [p \in {BasePath, PathD} |->
          IF p = BasePath
          THEN <<RemoteFile(<<<<"b">>, NameA>>), RemoteFile(PathZ), RemoteDir(PathD)>>
          ELSE <<RemoteFile(PathD \o <<NameA>>)>>] }

(* GET /api/list with limit and offset, on a tree that does not change. *)
listPage(tree, path, offset) ==
    LET all == IF path \in DOMAIN tree THEN tree[path] ELSE <<>>
    IN  SubSeq(all, offset + 1, MinOf(offset + LIST_PAGE_SIZE, Len(all)))

RECURSIVE addListed(_, _)
addListed(acc, items) ==
    IF items = <<>> THEN acc
    ELSE LET item == Head(items)
         IN  IF ~item.valid THEN addListed(acc, Tail(items))
             ELSE IF item.isDir
             THEN addListed([acc EXCEPT !.queue = Append(@, item.path)], Tail(items))
             ELSE addListed(
                    [acc EXCEPT !.remoteFiles =
                        IF item.path \in SeqToSet(@) THEN @ ELSE Append(@, item.path)],
                    Tail(items))

(***************************************************************************)
(* Initial state: the screen after mount, with the saved settings loaded.  *)
(***************************************************************************)
Configs ==
    [syncSource : {"camera", "folder"}, mirrorRemote : BOOLEAN,
     conflictPolicy : {"skip", "overwrite", "rename"},
     selectedRoot : BOOLEAN, uploadEnabled : BOOLEAN]

(* The remote file a candidate's status and chunk requests address. *)
ServerKey(candidate) ==
    IF candidate.kind = "camera" THEN <<candidate.displayName>> ELSE candidate.remoteTarget

ServerKeys ==
    {<<n>> : n \in Names} \cup {BasePath \o <<n>> : n \in Names}
        \cup {PathD \o <<n>> : n \in Names}

InitCommon ==
    /\ server = [k \in ServerKeys |-> 0]
    /\ cfg \in Configs
    /\ state \in [syncRunning : {FALSE}, localFolderUri : {"", "dir"}]
    /\ rendered = state
    /\ syncProgress = syncProgressBase
    /\ cancelRef = FALSE
    /\ runs = [r \in RunIds |-> IdleRun]

EmptyTree == [p \in {BasePath, PathD} |-> <<>>]

(* One runSync closure is invoked at a time. *)
Init ==
    /\ InitCommon
    /\ (cfg.syncSource = "camera" => state.localFolderUri = "")
    /\ world \in [slots : {{1}}, maxFiles : {MaxFiles}, remoteTree : RemoteTrees,
                  logDecisions : {FALSE}, logProbes : {FALSE}, names : {Names}]
    /\ (~(cfg.syncSource = "folder" /\ cfg.mirrorRemote) => world.remoteTree = EmptyTree)

(* Any saved settings, valid or not, over at most one local file. *)
InitValidate ==
    /\ InitCommon
    /\ (cfg.syncSource = "camera" => state.localFolderUri = "")
    /\ world \in [slots : {{1}}, maxFiles : {1}, remoteTree : RemoteTrees,
                  logDecisions : {FALSE}, logProbes : {FALSE}, names : {{NameA}}]
    /\ (world.remoteTree = EmptyTree <=> ~(cfg.syncSource = "folder" /\ cfg.mirrorRemote))

(* Folder runs with mirror mode on and policy overwrite against a server  *)
(* that holds files, with the record of the local files kept.              *)
InitPrune ==
    /\ InitCommon
    /\ cfg.selectedRoot /\ cfg.uploadEnabled
    /\ cfg.syncSource = "folder" /\ cfg.mirrorRemote /\ cfg.conflictPolicy = "overwrite"
    /\ state.localFolderUri = "dir"
    /\ world \in [slots : {{1}}, maxFiles : {MaxFiles}, remoteTree : RemoteTrees \ {EmptyTree},
                  logDecisions : {TRUE}, logProbes : {FALSE}, names : {{NameA}}]

(* Two presses may reach runSync closures of the same render. *)
InitRace ==
    /\ InitCommon
    /\ cfg = [syncSource |-> "camera", mirrorRemote |-> FALSE, conflictPolicy |-> "skip",
              selectedRoot |-> TRUE, uploadEnabled |-> TRUE]
    /\ state.localFolderUri = ""
    /\ world = [slots |-> RunIds, maxFiles |-> 1, remoteTree |-> EmptyTree,
                logDecisions |-> FALSE, logProbes |-> FALSE, names |-> Names]

(* The planning of one run, with the record of its decisions kept; the     *)
(* local items all have the same name, which in a folder already carries   *)
(* a conflict suffix.                                                      *)
InitResolver ==
    /\ InitCommon
    /\ cfg.selectedRoot /\ cfg.uploadEnabled
    /\ (cfg.syncSource = "camera" => state.localFolderUri = "" /\ ~cfg.mirrorRemote)
    /\ (cfg.syncSource = "folder" => state.localFolderUri = "dir")
    /\ world = [slots |-> {1}, maxFiles |-> MaxFiles, remoteTree |-> EmptyTree,
                logDecisions |-> TRUE, logProbes |-> FALSE,
                names |-> IF cfg.syncSource = "camera" THEN {NameA} ELSE {NameA1}]

(* The planning of one run under policy rename with mirrorRemote off, with *)
(* the record of its decisions and of the answers to its probes kept.      *)
InitProbe ==
    /\ InitCommon
    /\ cfg.selectedRoot /\ cfg.uploadEnabled
    /\ ~cfg.mirrorRemote /\ cfg.conflictPolicy = "rename"
    /\ state.localFolderUri = (IF cfg.syncSource = "camera" THEN "" ELSE "dir")
    /\ world = [slots |-> {1}, maxFiles |-> MaxFiles, remoteTree |-> EmptyTree,
                logDecisions |-> TRUE, logProbes |-> TRUE,
                names |-> IF cfg.syncSource = "camera" THEN {NameA} ELSE {NameA1}]

(* Runs over up to one more local item than a status batch holds, with the *)
(* record of the planning kept.                                            *)
InitPlan ==
    /\ InitCommon
    /\ cfg.selectedRoot /\ cfg.uploadEnabled
    /\ ~cfg.mirrorRemote /\ cfg.conflictPolicy = "skip"
    /\ state.localFolderUri = (IF cfg.syncSource = "camera" THEN "" ELSE "dir")
    /\ world = [slots |-> {1}, maxFiles |-> STATUS_BATCH_SIZE + 1, remoteTree |-> EmptyTree,
                logDecisions |-> TRUE, logProbes |-> FALSE, names |-> {NameA}]

(* One run under policy skip or overwrite with mirrorRemote off. *)
InitUpload ==
    /\ InitCommon
    /\ cfg.selectedRoot /\ cfg.uploadEnabled
    /\ ~cfg.mirrorRemote /\ cfg.conflictPolicy \in {"skip", "overwrite"}
    /\ state.localFolderUri = (IF cfg.syncSource = "camera" THEN "" ELSE "dir")
    /\ world = [slots |-> {1}, maxFiles |-> MaxFiles, remoteTree |-> EmptyTree,
                logDecisions |-> FALSE, logProbes |-> FALSE, names |-> {NameA}]

(* Runs of one closure at a time over one local file, against a server    *)
(* that keeps a per-file offset; nothing fails, so a file is left partly    *)
(* uploaded only by a cancelled run.                                        *)
InitResume ==
    /\ InitCommon
    /\ cfg.selectedRoot /\ cfg.uploadEnabled
    /\ ~cfg.mirrorRemote
    /\ state.localFolderUri = (IF cfg.syncSource = "camera" THEN "" ELSE "dir")
    /\ world = [slots |-> {1}, maxFiles |-> 1, remoteTree |-> EmptyTree,
                logDecisions |-> FALSE, logProbes |-> FALSE, names |-> {NameA}]

(* One closure at a time with valid settings and one name for the local   *)
(* items; a run that mirrors finds files on the server.                    *)
InitCancel ==
    /\ InitCommon
    /\ cfg.selectedRoot /\ cfg.uploadEnabled
    /\ (cfg.syncSource = "camera" => state.localFolderUri = "" /\ ~cfg.mirrorRemote)
    /\ (cfg.syncSource = "folder" => state.localFolderUri = "dir")
    /\ world \in [slots : {{1}}, maxFiles : {MaxFiles}, remoteTree : RemoteTrees,
                  logDecisions : {FALSE}, logProbes : {FALSE}, names : {{NameA}}]
    /\ (world.remoteTree = EmptyTree <=> ~(cfg.syncSource = "folder" /\ cfg.mirrorRemote))

(* One run over a source of at most one file, with every remote tree. *)
InitTermination ==
    /\ InitCommon
    /\ cfg.selectedRoot /\ cfg.uploadEnabled
    /\ (cfg.syncSource = "camera" => state.localFolderUri = "" /\ ~cfg.mirrorRemote)
    /\ (cfg.syncSource = "folder" => state.localFolderUri = "dir")
    /\ world \in [slots : {{1}}, maxFiles : {1}, remoteTree : RemoteTrees,
                  logDecisions : {FALSE}, logProbes : {FALSE}, names : {{NameA}}]
    /\ (world.remoteTree = EmptyTree <=> ~(cfg.syncSource = "folder" /\ cfg.mirrorRemote))

(* The planning of one run under policy skip or overwrite, with the record *)
(* of its decisions and of the response arrays kept.                       *)
InitBatch ==
    /\ InitCommon
    /\ cfg.selectedRoot /\ cfg.uploadEnabled
    /\ ~cfg.mirrorRemote /\ cfg.conflictPolicy \in {"skip", "overwrite"}
    /\ state.localFolderUri = (IF cfg.syncSource = "camera" THEN "" ELSE "dir")
    /\ world = [slots |-> {1}, maxFiles |-> MaxFiles, remoteTree |-> EmptyTree,
                logDecisions |-> TRUE, logProbes |-> FALSE, names |-> {NameA}]

(* Folder runs with mirror mode on and policy overwrite, over local files  *)
(* of two names, one of which the server does not hold.                    *)
InitMirror ==
    /\ InitCommon
    /\ cfg.selectedRoot /\ cfg.uploadEnabled
    /\ cfg.syncSource = "folder" /\ cfg.mirrorRemote /\ cfg.conflictPolicy = "overwrite"
    /\ state.localFolderUri = "dir"
    /\ world \in [slots : {{1}}, maxFiles : {MaxFiles}, remoteTree : RemoteTrees \ {EmptyTree},
                  logDecisions : {FALSE}, logProbes : {FALSE}, names : {Names}]

(* lastDone records the candidate counted by the step just taken, and     *)
(* lastProbe the answer to a rename probe that the step handled.           *)
M(r) ==
    Machine([runs[r] EXCEPT !.lastDone = <<>>, !.lastProbe = NoProbe],
            syncProgress, state.syncRunning)

(* The machine with the answer to the probe in flight put on record: the   *)
(* request was rejected with code exists ("exists_code"), failed otherwise *)
(* ("failed"), or succeeded ("ok") with a status.                          *)
Probed(r, kind, status) ==
    IF world.logProbes
    THEN [M(r) EXCEPT !.rn.lastProbe = [kind |-> kind, status |-> status,
                                        attempt |-> runs[r].req.attempt,
                                        index |-> runs[r].bindex]]
    ELSE M(r)

Apply(r, m) ==
    /\ runs' = [runs EXCEPT ![r] = m.rn]
    /\ syncProgress' = m.sp
    /\ state' = [state EXCEPT !.syncRunning = m.sr]

NoBusy == \A q \in RunIds : runs[q].pc \notin BusyPcs

FreeSlot(r) ==
    /\ r \in world.slots
    /\ runs[r].pc = "idle"
    /\ \A q \in world.slots : q < r => runs[q].pc # "idle"

(***************************************************************************)
(* runSync, from the press to its first await (691..735, 832, 928..962).   *)
(***************************************************************************)
ValidationErrorNoFolder ==
    IF ~cfg.selectedRoot THEN "Choose a destination root before syncing."
    ELSE IF ~cfg.uploadEnabled THEN "Uploads are disabled on the server."
    ELSE ""

ValidationError ==
    IF ~cfg.selectedRoot THEN "Choose a destination root before syncing."
    ELSE IF ~cfg.uploadEnabled THEN "Uploads are disabled on the server."
    ELSE IF cfg.syncSource = "folder" /\ rendered.localFolderUri = ""
    THEN "Pick a local folder to sync first."
    ELSE ""

(* if (syncRunning) return; with the syncRunning of the closure's render *)
RunSyncGuard == ~rendered.syncRunning

StartedRun ==
    [IdleRun EXCEPT !.source = cfg.syncSource, !.mirror = cfg.mirrorRemote,
                    !.policy = effectiveConflictPolicy(cfg.syncSource, cfg.mirrorRemote,
                                                       cfg.conflictPolicy)]

RunSyncInvalid ==
    /\ NoBusy
    /\ RunSyncGuard
    /\ ValidationError # ""
    /\ syncProgress' = [syncProgressBase EXCEPT !.stage = "error", !.error = ValidationError]
    /\ UNCHANGED <<cfg, state, rendered, cancelRef, runs, world, server>>

RunSyncCamera(r) ==
    /\ NoBusy
    /\ RunSyncGuard
    /\ ValidationError = ""
    /\ FreeSlot(r)
    /\ cfg.syncSource = "camera"
    /\ cancelRef' = FALSE
    /\ Apply(r, Machine([StartedRun EXCEPT !.pc = "perm", !.req = [kind |-> "permission"]],
                        [syncProgressBase EXCEPT !.stage = "planning"], TRUE))
    /\ UNCHANGED <<cfg, rendered, world, server>>

RunSyncFolder(r) ==
    /\ NoBusy
    /\ RunSyncGuard
    /\ ValidationError = ""
    /\ FreeSlot(r)
    /\ cfg.syncSource = "folder"
    /\ cancelRef' = FALSE
    /\ \E root \in LocalTrees(world.maxFiles, world.names) :
          LET scanned == collectLocalFolderFiles(root)
              rn == [StartedRun EXCEPT !.discovered = scanned.discovered,
                                       !.failed = scanned.failed,
                                       !.localExisting =
                                           IF world.logDecisions
                                           THEN existingTargets(root, <<>>) ELSE {},
                                       !.unlisted =
                                           IF world.logDecisions
                                           THEN unlistedDirs(root) ELSE 0,
                                       !.folderCandidates = buildFolderCandidates(scanned.files)]
          IN  Apply(r, FolderLoop(Machine(rn, [syncProgressBase EXCEPT !.stage = "planning"],
                                          TRUE), FALSE))
    /\ UNCHANGED <<cfg, rendered, world, server>>

(***************************************************************************)
(* The continuations of runSync, one per await.                            *)
(***************************************************************************)
PermissionResponse(r) ==
    /\ NoBusy
    /\ runs[r].pc = "perm"
    /\ \/ \E n \in 0..world.maxFiles :
             Apply(r, CameraLoop([M(r) EXCEPT !.rn.hasNext = TRUE, !.rn.libLeft = n],
                                 cancelRef))
       \/ Apply(r, Finish([M(r) EXCEPT !.sp =
             [syncProgressBase EXCEPT !.stage = "error",
                 !.error = "Media library permission is required for camera sync."]]))
    /\ UNCHANGED <<cfg, rendered, cancelRef, world, server>>

PageResponse(r) ==
    /\ NoBusy
    /\ runs[r].pc = "page"
    /\ \/ \E n \in (IF runs[r].libLeft = 0 THEN {0} ELSE 1..runs[r].libLeft) :
             Apply(r, AssetLoop([M(r) EXCEPT !.rn.pageLeft = n,
                                             !.rn.libLeft = @ - n,
                                             !.rn.hasNext = (runs[r].libLeft - n > 0)],
                                cancelRef))
       \/ Apply(r, EndError(M(r), "getAssetsAsync failed"))
    /\ UNCHANGED <<cfg, rendered, cancelRef, world, server>>

(* An asset that fails is passed over without being counted. *)
AfterAssetFailedUncounted(m, c) == AssetLoop(m, c)

(* getAssetInfoAsync throws, or there is no local uri, or the size is invalid. *)
AfterAssetFailed(m, c) == AssetLoop([m EXCEPT !.rn.failed = @ + 1], c)

AfterAssetInfo(m, c, fileName, size) ==
    LET m1 == [m EXCEPT !.rn = Pushed(@, cameraCandidate(fileName, size)),
                        !.rn.pending = Append(@, cameraCandidate(fileName, size))]
    IN  IF Len(m1.rn.pending) >= STATUS_BATCH_SIZE
        THEN IssueBatch(m1, m1.rn.pending, "asset")
        ELSE AssetLoop(m1, c)

AssetInfoResponse(r) ==
    /\ NoBusy
    /\ runs[r].pc = "asset_info"
    /\ \/ Apply(r, AfterAssetFailed(M(r), cancelRef))
       \/ \E fileName \in world.names, size \in Sizes :
             Apply(r, AfterAssetInfo(M(r), cancelRef, fileName, size))
    /\ UNCHANGED <<cfg, rendered, cancelRef, world, server>>

StatusBatchResponse(r) ==
    /\ NoBusy
    /\ runs[r].pc = "status_batch"
    /\ \/ \E f \in [1..Len(runs[r].batch) -> ItemReplyChoices], rev \in BOOLEAN :
             LET raw == IF rev THEN Reverse(rawItemsOf(f, 1)) ELSE rawItemsOf(f, 1)
                 items == normalizeBatchStatusItems(raw, Len(runs[r].batch))
             IN  Apply(r, ApplyLoop([M(r) EXCEPT !.rn.statusItems = items], cancelRef))
       \/ Apply(r, EndError(M(r), "Failed to check upload status"))
    /\ UNCHANGED <<cfg, rendered, cancelRef, world, server>>

RenameProbeResponse(r) ==
    /\ NoBusy
    /\ runs[r].pc = "rename_probe"
    /\ LET renamedCandidate == runs[r].req.candidate
       IN  \/ Apply(r, RenameLoop([Probed(r, "exists_code", "")
                                        EXCEPT !.rn.attempt = @ + 1], cancelRef))
           \/ Apply(r, AfterRename(Probed(r, "failed", ""), cancelRef, "failed",
                                   renamedCandidate, 0))
           \/ \E status \in Statuses \cup {""}, offset \in ReplyOffsets :
                 Apply(r, AfterRename(Probed(r, "ok", status), cancelRef,
                                      ProbeResult(status, offset, renamedCandidate.size),
                                      renamedCandidate, MaxOf(0, offset)))
    /\ UNCHANGED <<cfg, rendered, cancelRef, world, server>>

OpenHandle(r) ==
    /\ runs[r].pc = "open"
    /\ \/ Apply(r, ChunkLoop([M(r) EXCEPT
                !.rn.handleOpen = TRUE,
                !.sp = setSyncStage(syncProgress,
                          [stage |-> "uploading", uploaded |-> runs[r].uploaded,
                           uploadedBytes |-> runs[r].uploadedBytes])], cancelRef))
       \/ Apply(r, ThrowInUpload(M(r), "open failed"))
    /\ UNCHANGED <<cfg, rendered, cancelRef, world, server>>

(* handle.readBytes(nextChunkBytes), then the chunk POST is sent. *)
ReadChunk(r) ==
    /\ runs[r].pc = "read"
    /\ LET candidate == CurrentCandidate(runs[r])
           nextChunkBytes == MinOf(ChunkBytes, candidate.size - runs[r].offset)
       IN  \/ \E len \in 1..nextChunkBytes :
                 Apply(r, [M(r) EXCEPT
                    !.rn.pc = "chunk_post",
                    !.rn.chunkLen = len,
                    !.rn.posts = Append(@, runs[r].offset),
                    !.rn.req = [kind |-> "chunk", offset |-> runs[r].offset, len |-> len,
                                overwrite |-> candidate.overwrite,
                                item |-> buildStatusPayload(candidate, candidate.overwrite)]])
           \/ Apply(r, ThrowInUpload(M(r), "Failed to read file chunk"))
    /\ UNCHANGED <<cfg, rendered, cancelRef, world, server>>

ChunkResponse(r) ==
    /\ NoBusy
    /\ runs[r].pc = "chunk_post"
    /\ \/ \E serverOffset \in ReplyOffsets :
             Apply(r, AfterChunkOk(M(r), cancelRef, serverOffset))
       \/ Apply(r, [M(r) EXCEPT !.rn.pc = "recover_status",
                       !.rn.req = [kind |-> "status", attempt |-> 0,
                                   candidate |-> CurrentCandidate(runs[r]),
                                   item |-> buildStatusPayload(CurrentCandidate(runs[r]),
                                               CurrentCandidate(runs[r]).overwrite)]])
       \/ Apply(r, ThrowInUpload(M(r), "Chunk upload failed"))
    /\ UNCHANGED <<cfg, rendered, cancelRef, world, server>>

RecoverResponse(r) ==
    /\ NoBusy
    /\ runs[r].pc = "recover_status"
    /\ \/ \E serverOffset \in ReplyOffsets :
             Apply(r, AfterRecovery(M(r), cancelRef, serverOffset))
       \/ Apply(r, ThrowInUpload(M(r), "Failed to recover upload offset"))
    /\ UNCHANGED <<cfg, rendered, cancelRef, world, server>>

(* A listing that asks for the same page again after a full page. *)
AfterListKeepsOffset(m, c, items) ==
    LET acc == addListed([queue |-> m.rn.queue, remoteFiles |-> m.rn.remoteFiles], items)
        m1 == [m EXCEPT !.rn.queue = acc.queue, !.rn.remoteFiles = acc.remoteFiles]
    IN  IF Len(items) < LIST_PAGE_SIZE THEN MirrorOuter(m1, c) ELSE MirrorInner(m1, c)

AfterListOk(m, c, items) ==
    LET acc == addListed([queue |-> m.rn.queue, remoteFiles |-> m.rn.remoteFiles], items)
        m1 == [m EXCEPT !.rn.queue = acc.queue, !.rn.remoteFiles = acc.remoteFiles]
    IN  IF Len(items) < LIST_PAGE_SIZE
        THEN MirrorOuter(m1, c)
        ELSE MirrorInner([m1 EXCEPT !.rn.listOffset = @ + Len(items)], c)

ListResponse(r) ==
    /\ NoBusy
    /\ runs[r].pc = "mirror_list"
    /\ \/ Apply(r, AfterListOk(M(r), cancelRef,
                      listPage(world.remoteTree, runs[r].req.path, runs[r].req.offset)))
       \/ Apply(r, EndError(M(r), "Failed to list remote files for mirror mode"))
    /\ UNCHANGED <<cfg, rendered, cancelRef, world, server>>

(* A delete loop that gives up at the first batch that fails. *)
AfterDeleteStopsOnFailure(m, c, ok) ==
    LET n == Len(m.rn.req.paths)
        m1 == IF ok THEN [m EXCEPT !.rn.remoteDeleted = @ + n]
              ELSE [m EXCEPT !.rn.remoteDeleteFailed = @ + n]
        m2 == [m1 EXCEPT !.rn.dindex = @ + DELETE_BATCH_SIZE,
                         !.sp = setSyncStage(m.sp,
                                  [remoteDeleted |-> m1.rn.remoteDeleted,
                                   remoteDeleteFailed |-> m1.rn.remoteDeleteFailed])]
    IN  IF ok THEN DeleteLoop(m2, c) ELSE FinalStage(m2, c)

AfterDelete(m, c, ok) ==
    LET n == Len(m.rn.req.paths)
        m1 == IF ok THEN [m EXCEPT !.rn.remoteDeleted = @ + n]
              ELSE [m EXCEPT !.rn.remoteDeleteFailed = @ + n]
    IN  DeleteLoop([m1 EXCEPT !.rn.dindex = @ + DELETE_BATCH_SIZE,
                              !.sp = setSyncStage(m.sp,
                                  [remoteDeleted |-> m1.rn.remoteDeleted,
                                   remoteDeleteFailed |-> m1.rn.remoteDeleteFailed])], c)

DeleteResponse(r) ==
    /\ NoBusy
    /\ runs[r].pc = "mirror_delete"
    /\ \E ok \in BOOLEAN : Apply(r, AfterDelete(M(r), cancelRef, ok))
    /\ UNCHANGED <<cfg, rendered, cancelRef, world, server>>

(* await refresh() returns; finally. *)
RefreshDone(r) ==
    /\ NoBusy
    /\ runs[r].pc = "refresh"
    /\ Apply(r, Finish(M(r)))
    /\ UNCHANGED <<cfg, rendered, cancelRef, world, server>>

(***************************************************************************)
(* The other handlers of the screen, and React's render.                   *)
(***************************************************************************)
CancelSync ==
    /\ NoBusy
    /\ rendered.syncRunning
    /\ cancelRef' = TRUE
    /\ UNCHANGED <<cfg, state, rendered, syncProgress, runs, world, server>>

(* The folder button is on screen only for the folder source. *)
PickSyncFolderSelected ==
    /\ NoBusy
    /\ cfg.syncSource = "folder"
    /\ state' = [state EXCEPT !.localFolderUri = "dir"]
    /\ UNCHANGED <<cfg, rendered, syncProgress, cancelRef, runs, world, server>>

PickSyncFolderFailed ==
    /\ NoBusy
    /\ cfg.syncSource = "folder"
    /\ syncProgress' = setSyncStage(syncProgress,
                          [stage |-> "error", error |-> "Failed to pick folder."])
    /\ UNCHANGED <<cfg, state, rendered, cancelRef, runs, world, server>>

Render ==
    /\ NoBusy
    /\ rendered # state
    /\ rendered' = state
    /\ UNCHANGED <<cfg, state, syncProgress, cancelRef, runs, world, server>>

RunStep(r) ==
    \/ RunSyncCamera(r)
    \/ RunSyncFolder(r)
    \/ PermissionResponse(r)
    \/ PageResponse(r)
    \/ AssetInfoResponse(r)
    \/ StatusBatchResponse(r)
    \/ RenameProbeResponse(r)
    \/ OpenHandle(r)
    \/ ReadChunk(r)
    \/ ChunkResponse(r)
    \/ RecoverResponse(r)
    \/ ListResponse(r)
    \/ DeleteResponse(r)
    \/ RefreshDone(r)

Next ==
    \/ \E r \in RunIds : RunStep(r)
    \/ RunSyncInvalid
    \/ CancelSync
    \/ PickSyncFolderSelected
    \/ PickSyncFolderFailed
    \/ Render

Spec == Init /\ [][Next]_vars

(* The same steps from the states of InitValidate. *)
SpecValidate == InitValidate /\ [][Next]_vars

(* The camera runs of two closures, with cancelSync and the render. *)
RaceStep(r) ==
    \/ RunSyncCamera(r)
    \/ PermissionResponse(r)
    \/ PageResponse(r)
    \/ AssetInfoResponse(r)
    \/ StatusBatchResponse(r)
    \/ OpenHandle(r)
    \/ ReadChunk(r)
    \/ ChunkResponse(r)
    \/ RecoverResponse(r)
    \/ RefreshDone(r)

NextRace ==
    \/ \E r \in RunIds : RaceStep(r)
    \/ CancelSync
    \/ Render

SpecRace == InitRace /\ [][NextRace]_vars

(* runSync up to the end of planning, with cancelSync and the render. *)
ResolverStep(r) ==
    \/ RunSyncCamera(r)
    \/ RunSyncFolder(r)
    \/ PermissionResponse(r)
    \/ PageResponse(r)
    \/ AssetInfoResponse(r)
    \/ StatusBatchResponse(r)
    \/ RenameProbeResponse(r)

NextResolver ==
    \/ \E r \in RunIds : ResolverStep(r)
    \/ CancelSync
    \/ Render

SpecResolver == InitResolver /\ [][NextResolver]_vars

(* The same steps from the states of InitProbe. *)
SpecProbe == InitProbe /\ [][NextResolver]_vars

(* runSync without rename probes and without the mirror pass. *)
UploadStep(r) ==
    \/ RunSyncCamera(r)
    \/ RunSyncFolder(r)
    \/ PermissionResponse(r)
    \/ PageResponse(r)
    \/ AssetInfoResponse(r)
    \/ StatusBatchResponse(r)
    \/ OpenHandle(r)
    \/ ReadChunk(r)
    \/ ChunkResponse(r)
    \/ RecoverResponse(r)
    \/ RefreshDone(r)

NextUpload ==
    \/ \E r \in RunIds : UploadStep(r)
    \/ CancelSync
    \/ Render

SpecUpload == InitUpload /\ [][NextUpload]_vars

(* The entries a batch response may hold for a batch of n candidates, and   *)
(* the response arrays: entries in any order, with any index, of any       *)
(* number up to n.                                                         *)
RawEntries(n) ==
    [index : {IntIndex(i) : i \in -1..n} \cup {NullIndex, FractionIndex, MissingIndex},
     status : {"ready", "complete"}, offset : {0}, ok : {TRUE}]

RawResponses(n) == UNION {[1..k -> RawEntries(n)] : k \in 0..n}

(* The batch status response as an array of any entries. *)
RawStatusBatchResponse(r) ==
    /\ NoBusy
    /\ runs[r].pc = "status_batch"
    /\ \E raw \in RawResponses(Len(runs[r].batch)) :
          LET items == normalizeBatchStatusItems(raw, Len(runs[r].batch))
          IN  Apply(r, ApplyLoop([M(r) EXCEPT !.rn.statusItems = items,
                                              !.rn.rawItems = [kept |-> TRUE, items |-> raw]],
                                 cancelRef))
    /\ UNCHANGED <<cfg, rendered, cancelRef, world, server>>

BatchStep(r) ==
    \/ RunSyncCamera(r)
    \/ RunSyncFolder(r)
    \/ PermissionResponse(r)
    \/ PageResponse(r)
    \/ AssetInfoResponse(r)
    \/ RawStatusBatchResponse(r)

NextBatch ==
    \/ \E r \in RunIds : BatchStep(r)
    \/ CancelSync
    \/ Render

SpecBatch == InitBatch /\ [][NextBatch]_vars

(* The steps of a folder run, with cancelSync and the render. *)
MirrorStep(r) ==
    \/ RunSyncFolder(r)
    \/ StatusBatchResponse(r)
    \/ OpenHandle(r)
    \/ ReadChunk(r)
    \/ ChunkResponse(r)
    \/ RecoverResponse(r)
    \/ ListResponse(r)
    \/ DeleteResponse(r)
    \/ RefreshDone(r)

NextMirror ==
    \/ \E r \in RunIds : MirrorStep(r)
    \/ CancelSync
    \/ Render

SpecMirror == InitMirror /\ [][NextMirror]_vars

(* The same steps from the states of InitPrune. *)
SpecPrune == InitPrune /\ [][NextMirror]_vars

(***************************************************************************)
(* runSync against a server that keeps, for each remote file, the offset   *)
(* up to which it holds the file: a status request reports that offset     *)
(* (complete once it reaches the size asked about), a chunk is accepted    *)
(* only at that offset and moves it by the length of the chunk, any other  *)
(* chunk is rejected with offset_mismatch.                                 *)
(***************************************************************************)
HeldStatus(held, size) ==
    IF held >= size THEN [status |-> "complete", offset |-> held]
    ELSE [status |-> "ready", offset |-> held]

ResumeStatusBatchResponse(r) ==
    /\ NoBusy
    /\ runs[r].pc = "status_batch"
    /\ LET batch == runs[r].batch
           f == [i \in 1..Len(batch) |->
                   HeldStatus(server[ServerKey(batch[i])], batch[i].size)]
           items == normalizeBatchStatusItems(rawItemsOf(f, 1), Len(batch))
       IN  Apply(r, ApplyLoop([M(r) EXCEPT !.rn.statusItems = items], cancelRef))
    /\ UNCHANGED <<cfg, rendered, cancelRef, world, server>>

ResumeChunkResponse(r) ==
    /\ NoBusy
    /\ runs[r].pc = "chunk_post"
    /\ LET candidate == CurrentCandidate(runs[r])
           key == ServerKey(candidate)
           req == runs[r].req
       IN  IF server[key] = req.offset
           THEN /\ server' = [server EXCEPT ![key] = req.offset + req.len]
                /\ Apply(r, AfterChunkOk(M(r), cancelRef, req.offset + req.len))
           ELSE /\ UNCHANGED server
                /\ Apply(r, [M(r) EXCEPT !.rn.pc = "recover_status",
                                 !.rn.req = [kind |-> "status", attempt |-> 0,
                                             candidate |-> candidate,
                                             item |-> buildStatusPayload(candidate,
                                                          candidate.overwrite)]])
    /\ UNCHANGED <<cfg, rendered, cancelRef, world>>

ResumeStep(r) ==
    \/ RunSyncCamera(r)
    \/ RunSyncFolder(r)
    \/ PermissionResponse(r)
    \/ PageResponse(r)
    \/ AssetInfoResponse(r)
    \/ ResumeStatusBatchResponse(r)
    \/ OpenHandle(r)
    \/ ReadChunk(r)
    \/ ResumeChunkResponse(r)
    \/ RefreshDone(r)

NextResume ==
    \/ \E r \in RunIds : ResumeStep(r)
    \/ CancelSync
    \/ Render

SpecResume == InitResume /\ [][NextResume]_vars

(* The same steps from the states of InitPlan. *)
SpecPlan == InitPlan /\ [][NextResume]_vars

(* Every step of runSync, with cancelSync and the render. *)
NextCancel ==
    \/ \E r \in RunIds : RunStep(r)
    \/ CancelSync
    \/ Render

SpecCancel == InitCancel /\ [][NextCancel]_vars

(* The continuation of a run after an await: the event loop runs it once   *)
(* the awaited call has returned.                                          *)
RunContinues(r) ==
    \/ PermissionResponse(r)
    \/ PageResponse(r)
    \/ AssetInfoResponse(r)
    \/ StatusBatchResponse(r)
    \/ RenameProbeResponse(r)
    \/ OpenHandle(r)
    \/ ReadChunk(r)
    \/ ChunkResponse(r)
    \/ RecoverResponse(r)
    \/ ListResponse(r)
    \/ DeleteResponse(r)
    \/ RefreshDone(r)

(* Every awaited call returns: weak fairness of the continuation, which   *)
(* is enabled exactly while the run is between its start and its end.      *)
AwaitedCallsReturn(r) ==
    \/ []<>(runs[r].pc = "idle")
    \/ []<><<RunContinues(r)>>_vars

(* Every step of runSync where every awaited call returns in the end. *)
SpecTermination ==
    InitTermination /\ [][NextCancel]_vars /\ \A r \in RunIds : AwaitedCallsReturn(r)

(***************************************************************************)
(* Properties.                                                             *)
(***************************************************************************)
UploadPcs == {"open", "read", "chunk_post", "recover_status"}

(* A runSync invocation passed its guard in this step: a run left "idle",  *)
(* or the validation failed and SyncProgress was replaced.                 *)
RunSyncInvoked ==
    \/ \E r \in RunIds : runs[r].pc = "idle" /\ runs'[r].pc # "idle"
    \/ /\ runs' = runs
       /\ ValidationError # ""
       /\ syncProgress' = [syncProgressBase EXCEPT !.stage = "error",
                                                   !.error = ValidationError]

(* The stages a handler may pass through before its next await are not     *)
(* seen one by one: a step from planning to done has passed uploading.     *)
StageStepAllowed ==
    LET old == syncProgress.stage
        new == syncProgress'.stage
    IN  new # old =>
          \/ RunSyncInvoked
          \/ /\ old \notin Terminal
             /\ new = "uploading" => old = "planning"
             /\ new = "mirroring" => old \in {"planning", "uploading"}
             /\ new = "done" => old \in {"planning", "uploading", "mirroring"}

(* C1: the stage follows idle -> planning -> uploading -> [mirroring] ->   *)
(* done | error | cancelled: uploading is entered only from planning,      *)
(* mirroring only from uploading, done only from uploading or mirroring,   *)
(* and a stage of done, error or cancelled changes only when runSync is    *)
(* invoked again.                                                          *)
StageFollowsStateMachine == [][StageStepAllowed]_vars

(* C2: at most one sync run is active, whatever the interleaving of the    *)
(* runSync requests, the running run and the update of syncRunning.        *)
AtMostOneRunActive == Cardinality({r \in RunIds : runs[r].pc # "idle"}) <= 1

AllDecisions ==
    UNION {{runs[r].decisions[i] : i \in 1..Len(runs[r].decisions)} : r \in RunIds}

(* C3: a candidate whose batch status entry reports complete, or an offset *)
(* at or above its size whatever the status, is counted skipped and is     *)
(* never added to the planned list.                                        *)
CompleteOrFullIsSkipped ==
    \A d \in AllDecisions :
        (d.item.present /\ (d.item.status = "complete" \/ d.item.offset >= d.candidate.size))
            => d.result = "skipped"

(* C4: under the effective policy overwrite, a candidate whose batch       *)
(* status is exists is planned with overwrite = true, neither skipped nor  *)
(* failed.                                                                 *)
OverwriteExistsIsPlanned ==
    \A d \in AllDecisions :
        (d.policy = "overwrite" /\ d.item.present /\ d.item.status = "exists")
            => d.result = "planned" /\ d.planned.overwrite

NameOf(candidate) ==
    IF candidate.kind = "camera" THEN candidate.displayName
    ELSE candidate.remoteTarget[Len(candidate.remoteTarget)]

FolderOf(candidate) ==
    IF candidate.kind = "camera" THEN <<>>
    ELSE SubSeq(candidate.remoteTarget, 1, Len(candidate.remoteTarget) - 1)

(* new is old with the one token " (k)" inserted. *)
IsSuffixed(new, old, k) ==
    \E p \in 1..Len(new) :
        /\ new[p] = SuffixToken(k)
        /\ SubSeq(new, 1, p - 1) \o SubSeq(new, p + 1, Len(new)) = old

IsRenamedCopy(renamed, original, k) ==
    /\ IsSuffixed(NameOf(renamed), NameOf(original), k)
    /\ NameOf(renamed) # NameOf(original)
    /\ FolderOf(renamed) = FolderOf(original)
    /\ renamed.kind = original.kind
    /\ renamed.size = original.size
    /\ ~renamed.overwrite

Unmodified(original) == ~original.overwrite /\ original.initialOffset = 0

(* C5: under the effective policy rename, a candidate whose batch status   *)
(* is exists ends planned as a renamed copy (its name with one suffix      *)
(* " (k)", k in 1..MAX_RENAME_ATTEMPTS, and overwrite = false), or counted *)
(* skipped, or counted failed; it is never planned under its own name, and *)
(* the candidate of the batch is left as it was while copies are probed.   *)
RenameOutcome ==
    /\ \A d \in AllDecisions :
          (d.policy = "rename" /\ d.item.present /\ d.item.status = "exists") =>
             /\ d.result \in {"planned", "skipped", "failed"}
             /\ Unmodified(d.candidate)
             /\ d.result = "planned" =>
                   \E k \in 1..MAX_RENAME_ATTEMPTS : IsRenamedCopy(d.planned, d.candidate, k)
             /\ d.result # "planned" => d.planned = NoCandidate
    /\ \A r \in RunIds :
          runs[r].pc = "rename_probe" =>
             LET original == runs[r].batch[runs[r].bindex + 1]
             IN  /\ Unmodified(original)
                 /\ runs[r].req.attempt \in 1..MAX_RENAME_ATTEMPTS
                 /\ IsRenamedCopy(runs[r].req.candidate, original, runs[r].req.attempt)
                 /\ ~runs[r].req.item.overwrite

RenameOutcomeWitness ==
    \E d \in AllDecisions :
        /\ d.policy = "rename" /\ d.item.present /\ d.item.status = "exists"
        /\ d.result = "planned"
        /\ IsRenamedCopy(d.planned, d.candidate, MAX_RENAME_ATTEMPTS)

MirrorRenameConfigured ==
    cfg.syncSource = "folder" /\ cfg.mirrorRemote /\ cfg.conflictPolicy = "rename"

(* C6: in a run with the folder source, mirror mode and the configured     *)
(* policy rename, every status request and every classification uses the   *)
(* policy overwrite: no rename probe is issued and no renamed target is    *)
(* planned.                                                                *)
MirrorExclusivity ==
    MirrorRenameConfigured =>
        /\ \A r \in RunIds :
              runs[r].pc \notin {"idle", "refresh"} =>
                 /\ runs[r].policy = "overwrite"
                 /\ runs[r].pc # "rename_probe"
                 /\ runs[r].req.kind # "status"
                 /\ runs[r].req.kind = "status_batch" =>
                       \A i \in 1..Len(runs[r].req.items) : runs[r].req.items[i].overwrite
                 /\ \A i \in 1..Len(runs[r].candidates) :
                       /\ runs[r].candidates[i].remoteTarget \in runs[r].localMirrorTargets
                       /\ runs[r].candidates[i].overwrite
        /\ \A d \in AllDecisions :
              /\ d.policy = "overwrite"
              /\ d.result = "planned" => d.planned.remoteTarget = d.candidate.remoteTarget

MirrorExclusivityWitness ==
    /\ MirrorRenameConfigured
    /\ \E d \in AllDecisions : d.item.present /\ d.item.status = "exists"
    /\ \E d \in AllDecisions : d.result = "planned"

(* C7: a rejected chunk POST (other than offset_mismatch) or a failed      *)
(* chunk read does not end the run in stage error.                         *)
ChunkFailureIsNotFatal ==
    [][\A r \in RunIds :
          runs[r].pc \in {"read", "chunk_post"} =>
             ~(runs'[r].pc = "idle" /\ syncProgress'.stage = "error")]_vars

(* C8: within the upload of one candidate the local offset never           *)
(* decreases, and the offsets of its successive chunk POSTs, the POST      *)
(* after an offset-mismatch recovery included, are strictly increasing.    *)
OffsetsIncrease ==
    /\ [](\A r \in RunIds :
            LET posts == runs[r].posts
            IN  /\ \A i, j \in 1..Len(posts) : i < j => posts[i] < posts[j]
                /\ (posts # <<>> /\ runs[r].pc \in UploadPcs) =>
                      runs[r].offset >= posts[Len(posts)])
    /\ [][\A r \in RunIds :
            (runs[r].pc \in UploadPcs /\ runs'[r].pc \in UploadPcs
                /\ runs'[r].cidx = runs[r].cidx)
               => runs'[r].offset >= runs[r].offset]_vars

OffsetsIncreaseWitness ==
    \E r \in RunIds :
        /\ runs[r].pc = "chunk_post"
        /\ Len(runs[r].posts) >= 2
        /\ runs[r].offset = runs[r].posts[Len(runs[r].posts)]

(* C9: a candidate counted as uploaded has a final local offset equal to   *)
(* its size, whatever offsets the server reported.                         *)
FinalOffsetEqualsSize ==
    \A r \in RunIds :
        runs[r].lastDone # <<>> => runs[r].lastDone.offset = runs[r].lastDone.size

(* C10: after a chunk POST is rejected with offset_mismatch one status     *)
(* request is issued for the candidate; its answer either moves the local  *)
(* offset strictly forward, the gap credited to uploadedBytes, and the     *)
(* chunk loop goes on, or ends the run in stage error with no further      *)
(* chunk POST.                                                             *)
OffsetMismatchRecovery ==
    [][\A r \in RunIds :
          /\ (runs[r].pc = "chunk_post" /\ runs'[r].pc = "recover_status") =>
                /\ runs'[r].req.kind = "status"
                /\ runs'[r].req.candidate = CurrentCandidate(runs[r])
                /\ runs'[r].offset = runs[r].offset
                /\ runs'[r].posts = runs[r].posts
          /\ (runs[r].pc = "recover_status" /\ runs'[r] # runs[r]) =>
                \/ /\ runs'[r].pc = "idle"
                   /\ syncProgress'.stage = "error"
                   /\ syncProgress'.uploadedBytes = syncProgress.uploadedBytes
                \/ /\ runs'[r].pc \notin {"idle", "recover_status", "chunk_post"}
                   /\ syncProgress'.uploadedBytes > runs[r].uploadedBytes
                   /\ runs'[r].pc = "read" =>
                         /\ runs'[r].cidx = runs[r].cidx
                         /\ runs'[r].posts = runs[r].posts
                         /\ runs'[r].offset > runs[r].offset
                         /\ runs'[r].offset - runs[r].offset
                               = runs'[r].uploadedBytes - runs[r].uploadedBytes]_vars

OffsetMismatchRecoveryWitness ==
    \E r \in RunIds :
        /\ runs[r].pc = "recover_status"
        /\ runs[r].req.kind = "status"
        /\ runs[r].posts # <<>>
        /\ runs[r].offset = runs[r].posts[Len(runs[r].posts)]

(* C11: against a server that keeps a per-file offset and accepts a chunk  *)
(* only at that offset, a run that follows a run cancelled during          *)
(* uploading resumes the partly uploaded candidate at the offset the       *)
(* server holds: every chunk POST, of any run, starts exactly at the       *)
(* server's offset (no byte the server holds is posted again, none it      *)
(* lacks is skipped), and a candidate is counted uploaded only when the    *)
(* server holds all of [0, size).                                          *)
ResumeFromConfirmedOffset ==
    /\ [](\A r \in RunIds :
            /\ runs[r].pc \in {"open", "read", "chunk_post"} =>
                  runs[r].offset = server[ServerKey(CurrentCandidate(runs[r]))]
            /\ runs[r].pc = "chunk_post" =>
                  runs[r].req.offset = server[ServerKey(CurrentCandidate(runs[r]))]
            /\ runs[r].pc # "recover_status")
    /\ [][\A r \in RunIds :
            (runs[r].pc \in UploadPcs /\ runs'[r].uploaded = runs[r].uploaded + 1) =>
                server'[ServerKey(CurrentCandidate(runs[r]))]
                    = CurrentCandidate(runs[r]).size]_vars

ResumeFromConfirmedOffsetWitness ==
    \E r \in RunIds :
        /\ cancelRef = FALSE
        /\ runs[r].pc = "chunk_post"
        /\ CurrentCandidate(runs[r]).initialOffset > 0
        /\ runs[r].posts = <<CurrentCandidate(runs[r]).initialOffset>>
        /\ server[ServerKey(CurrentCandidate(runs[r]))]
               = CurrentCandidate(runs[r]).initialOffset

(* The messages of the errors that come from a request that failed or was  *)
(* rejected.                                                               *)
RequestFailures ==
    {"Media library permission is required for camera sync.", "getAssetsAsync failed",
     "Failed to check upload status", "open failed", "Failed to read file chunk",
     "Chunk upload failed", "Failed to recover upload offset",
     "Upload offset mismatch could not be resolved",
     "Failed to list remote files for mirror mode"}

EndsWithFailure ==
    syncProgress'.stage = "error" /\ syncProgress'.error \in RequestFailures

(* The step in which run r writes its final stage: it returns, or it goes  *)
(* on to the last refresh.                                                 *)
FinalStageWritten(r) ==
    runs[r].pc \notin {"idle", "refresh"} /\ runs'[r].pc \in {"idle", "refresh"}

(* C12 as stated: a run during which cancelSync was invoked, at any moment *)
(* while it was active, and none of whose requests failed, ends in stage   *)
(* cancelled.                                                              *)
CancelledWheneverInvoked ==
    [][\A r \in RunIds :
          (runs[r].pc # "idle" /\ runs'[r].pc = "idle" /\ cancelRef /\ ~EndsWithFailure)
             => syncProgress'.stage = "cancelled"]_vars

(* C12: a run whose cancel flag is set when it writes its final stage, and *)
(* none of whose requests failed, writes cancelled, neither done nor       *)
(* error; a cancelSync invoked later, during the last refresh, leaves the  *)
(* stage the run has written.                                              *)
CancelledAtCheckpoint ==
    [][\A r \in RunIds :
          /\ (FinalStageWritten(r) /\ ~EndsWithFailure) =>
                syncProgress'.stage = (IF cancelRef THEN "cancelled" ELSE "done")
          /\ (runs[r].pc = "refresh" /\ runs'[r].pc = "idle") =>
                syncProgress' = syncProgress]_vars

CancelledAtCheckpointWitness ==
    \E r \in RunIds :
        /\ runs[r].pc = "refresh"
        /\ cancelRef
        /\ syncProgress.stage = "cancelled"
        /\ syncProgress.uploadedBytes > 0

CounterFields ==
    {"discovered", "planned", "skipped", "failed", "plannedBytes", "uploaded",
     "uploadedBytes"}

(* C13: when a run has ended in stage cancelled, each counter shown in     *)
(* SyncProgress equals the count the run had accumulated at the checkpoint *)
(* where it observed the cancellation, during planning or uploading.       *)
CancelledCountsPreserved ==
    \A r \in RunIds :
        (runs[r].counted # <<>> /\ syncProgress.stage = "cancelled") =>
            \A f \in CounterFields : syncProgress[f] = runs[r].counted[f]

(* C14: once cancelSync has set the flag, a run starts no new batch status *)
(* request, no new chunk POST and no new delete request, from the camera   *)
(* or from a folder; a request in flight completes.                        *)
NoNewRequestAfterCancel ==
    [][\A r \in RunIds :
          (cancelRef /\ runs[r].pc # "idle" /\ runs'[r] # runs[r]) =>
              runs'[r].pc \notin {"status_batch", "chunk_post", "mirror_delete"}]_vars

MirrorPcs == {"mirror_list", "mirror_delete"}

EntersMirror(r) == runs[r].pc \notin MirrorPcs /\ runs'[r].pc \in MirrorPcs

(* The cancel flag as a step of run r reads it, and the source and mirror  *)
(* switch of the run: runSync clears the flag and reads the settings when  *)
(* it is invoked.                                                          *)
FlagSeen(r) == IF runs[r].pc = "idle" THEN cancelRef' ELSE cancelRef

RunMirrors(r) ==
    IF runs[r].pc = "idle" THEN cfg.syncSource = "folder" /\ cfg.mirrorRemote
    ELSE runs[r].source = "folder" /\ runs[r].mirror

(* C15: a list or delete request of the mirror pass is in flight only in a *)
(* run with the folder source and mirror mode on, all of whose planned     *)
(* candidates were uploaded to completion; the pass is entered only with   *)
(* the cancel flag clear, stage mirroring is written exactly when it is    *)
(* entered, and a run with folder and mirror that finishes its uploads     *)
(* with the flag clear does enter it.                                      *)
MirrorOnlyAfterUploads ==
    /\ [](\A r \in RunIds :
            runs[r].pc \in MirrorPcs =>
               /\ runs[r].source = "folder" /\ runs[r].mirror
               /\ runs[r].req.kind \in {"list", "delete"}
               /\ runs[r].uploaded = runs[r].nplanned
               /\ syncProgress.uploaded = syncProgress.planned
               /\ syncProgress.stage = "mirroring")
    /\ [][/\ \A r \in RunIds :
               /\ EntersMirror(r) =>
                     ~FlagSeen(r) /\ RunMirrors(r) /\ syncProgress.stage # "mirroring"
                       /\ syncProgress'.stage = "mirroring"
               /\ (runs[r].pc \notin MirrorPcs \cup {"refresh"}
                      /\ runs'[r].pc = "refresh") =>
                     (FlagSeen(r) \/ ~RunMirrors(r))
               /\ runs'[r].pc \notin MirrorPcs =>
                     runs'[r].req.kind \notin {"list", "delete"}
          /\ (syncProgress'.stage = "mirroring" /\ syncProgress.stage # "mirroring") =>
                \E r \in RunIds : EntersMirror(r)]_vars

MirrorOnlyAfterUploadsWitness ==
    \E r \in RunIds :
        /\ runs[r].pc = "mirror_delete"
        /\ runs[r].nplanned > 0
        /\ runs[r].uploaded = runs[r].nplanned

(* The files the server holds under the base path. *)
AllRemoteFiles ==
    UNION {{world.remoteTree[p][i].path :
              i \in {j \in 1..Len(world.remoteTree[p]) :
                       ~world.remoteTree[p][j].isDir /\ world.remoteTree[p][j].valid}} :
           p \in DOMAIN world.remoteTree}

NoDuplicates(q) == \A i, j \in 1..Len(q) : i # j => q[i] # q[j]

(* The paths of the delete requests sent so far, the one in flight included. *)
SentForDeletion(rn) ==
    SeqToSet(SubSeq(rn.toDelete, 1, MinOf(rn.dindex + DELETE_BATCH_SIZE, Len(rn.toDelete))))

DeleteCounted(sp) == sp.remoteDeleted + sp.remoteDeleteFailed

(* C17: the delete requests of a mirror pass carry consecutive slices of   *)
(* the deletion list, of at most DELETE_BATCH_SIZE paths each, so each     *)
(* path is in exactly one batch; the answer to a batch adds its size to    *)
(* remoteDeleted or to remoteDeleteFailed, and unless the run is cancelled *)
(* the next batch is sent whatever the answer; a run that ends in done has *)
(* remoteDeleted + remoteDeleteFailed equal to the size of the list.       *)
MirrorDeleteBatches ==
    /\ [](\A r \in RunIds :
            runs[r].pc = "mirror_delete" =>
               LET rn == runs[r]
               IN  /\ rn.dindex % DELETE_BATCH_SIZE = 0
                   /\ rn.dindex < Len(rn.toDelete)
                   /\ rn.req.paths = SubSeq(rn.toDelete, rn.dindex + 1,
                                            MinOf(rn.dindex + DELETE_BATCH_SIZE,
                                                  Len(rn.toDelete)))
                   /\ Len(rn.req.paths) \in 1..DELETE_BATCH_SIZE
                   /\ NoDuplicates(rn.toDelete)
                   /\ rn.remoteDeleted + rn.remoteDeleteFailed = rn.dindex
                   /\ DeleteCounted(syncProgress) = rn.dindex)
    /\ [][\A r \in RunIds :
            (runs[r].pc = "mirror_delete" /\ runs'[r] # runs[r]) =>
               LET rn == runs[r]
                   n == Len(rn.req.paths)
               IN  /\ \/ /\ syncProgress'.remoteDeleted = syncProgress.remoteDeleted + n
                         /\ syncProgress'.remoteDeleteFailed
                               = syncProgress.remoteDeleteFailed
                      \/ /\ syncProgress'.remoteDeleteFailed
                               = syncProgress.remoteDeleteFailed + n
                         /\ syncProgress'.remoteDeleted = syncProgress.remoteDeleted
                   /\ (~cancelRef /\ rn.dindex + DELETE_BATCH_SIZE < Len(rn.toDelete)) =>
                         /\ runs'[r].pc = "mirror_delete"
                         /\ runs'[r].dindex = rn.dindex + DELETE_BATCH_SIZE
                   /\ syncProgress'.stage = "done" =>
                         DeleteCounted(syncProgress') = Len(rn.toDelete)]_vars

MirrorDeleteBatchesWitness ==
    \E r \in RunIds :
        /\ runs[r].pc = "mirror_delete"
        /\ runs[r].dindex > 0
        /\ syncProgress.remoteDeleteFailed > 0

(* The positions in the response array of the entries whose index field is *)
(* the integer i.                                                          *)
EntriesFor(raw, i) == {k \in 1..Len(raw) : raw[k].index = IntIndex(i)}

(* C18: the status applied to the candidate at position i of a batch is a  *)
(* response entry whose index field equals i, wherever it stands in the    *)
(* array; when no entry has index i (none, or only entries whose index is  *)
(* out of range or not an integer) the candidate is counted failed and is  *)
(* not planned.                                                            *)
MatchedByIndexField ==
    \A d \in AllDecisions :
        d.raw.kept =>
            LET E == EntriesFor(d.raw.items, d.index)
            IN  IF E = {}
                THEN ~d.item.present /\ d.result = "failed" /\ d.planned = NoCandidate
                ELSE \E k \in E :
                        d.item = [present |-> TRUE, status |-> d.raw.items[k].status,
                                  ok |-> d.raw.items[k].ok,
                                  offset |-> d.raw.items[k].offset]

(* What the answer to a probe reports: the status of a successful          *)
(* response (ready when it has none), exists for a rejection with that     *)
(* code, failed for any other failure.                                     *)
ReportedStatus(probe) ==
    IF probe.kind = "exists_code" THEN "exists"
    ELSE IF probe.kind = "failed" THEN "failed"
    ELSE IF probe.status = "" THEN "ready" ELSE probe.status

(* The probe just answered was followed by the probe of the next attempt. *)
ProbeContinued(rn) ==
    rn.pc = "rename_probe" /\ rn.req.attempt = rn.lastProbe.attempt + 1

(* The decision taken for the candidate whose probe was just answered. *)
ProbeDecision(rn) ==
    rn.decisions[Max({i \in 1..Len(rn.decisions) :
                        rn.decisions[i].index = rn.lastProbe.index})]

(* C19: a renamed candidate is planned only when the probe for its name    *)
(* reports ready; a probe that reports exists, as an error code or as the  *)
(* status of a successful response, is followed by the next attempt (or by *)
(* failed when no attempt is left or the run is cancelled) and never by    *)
(* adoption; complete gives skipped and a failed request gives failed.     *)
ProbeAdoptsOnlyReady ==
    \A r \in RunIds :
        (runs[r].lastProbe.kind # "none" /\ runs[r].pc # "idle") =>
            LET rn == runs[r]
                reported == ReportedStatus(rn.lastProbe)
            IN  /\ (~ProbeContinued(rn) /\ ProbeDecision(rn).result = "planned") =>
                      reported = "ready"
                /\ reported = "exists" =>
                      \/ ProbeContinued(rn)
                      \/ /\ ProbeDecision(rn).result = "failed"
                         /\ rn.lastProbe.attempt = MAX_RENAME_ATTEMPTS \/ cancelRef
                /\ reported = "complete" =>
                      ~ProbeContinued(rn) /\ ProbeDecision(rn).result = "skipped"
                /\ reported = "failed" =>
                      ~ProbeContinued(rn) /\ ProbeDecision(rn).result = "failed"

(* C20: for one conflicting candidate the probes are single-item status    *)
(* requests with overwrite = false for attempts 1, 2, ... up to            *)
(* MAX_RENAME_ATTEMPTS, each attempt following the previous one answered   *)
(* exists; resolution stops at the first attempt not answered exists, and  *)
(* a candidate whose last attempt is answered exists is counted failed     *)
(* and never planned.                                                      *)
RenameProbesBounded ==
    \A r \in RunIds :
        LET rn == runs[r]
        IN  /\ rn.pc = "rename_probe" =>
                  /\ rn.req.kind = "status"
                  /\ ~rn.req.item.overwrite
                  /\ rn.req.attempt \in 1..MAX_RENAME_ATTEMPTS
                  /\ rn.req.attempt > 1 =>
                        /\ rn.lastProbe.attempt = rn.req.attempt - 1
                        /\ rn.lastProbe.index = rn.bindex
                        /\ ReportedStatus(rn.lastProbe) = "exists"
            /\ (rn.lastProbe.kind # "none" /\ rn.pc # "idle") =>
                  /\ ReportedStatus(rn.lastProbe) # "exists" => ~ProbeContinued(rn)
                  /\ ReportedStatus(rn.lastProbe) = "exists" =>
                        \/ ProbeContinued(rn)
                        \/ /\ rn.lastProbe.attempt = MAX_RENAME_ATTEMPTS \/ cancelRef
                           /\ ProbeDecision(rn).result = "failed"
                           /\ ProbeDecision(rn).planned = NoCandidate

(* The settings runSync rejects: no destination root, uploads disabled by  *)
(* the server, or the folder source with no local folder chosen.           *)
SettingsInvalid ==
    \/ ~cfg.selectedRoot
    \/ ~cfg.uploadEnabled
    \/ cfg.syncSource = "folder" /\ state.localFolderUri = ""

NothingStarted ==
    /\ ~state.syncRunning
    /\ \A r \in RunIds : runs[r] = IdleRun
    /\ syncProgress.stage \in {"idle", "error"}

(* C21: while the settings are invalid no run has started (syncRunning is  *)
(* false, no run holds a request or an enumeration, the stage is idle or   *)
(* error), the runSync closure sees them as invalid, and a runSync         *)
(* invocation sets stage error with a message and starts nothing.          *)
InvalidSettingsNeverStart ==
    /\ [](SettingsInvalid => NothingStarted /\ ValidationError # "")
    /\ [][SettingsInvalid =>
            /\ runs' = runs
            /\ ~state'.syncRunning
            /\ cancelRef' = cancelRef
            /\ syncProgress'.stage # "planning"
            /\ RunSyncInvalid =>
                  syncProgress'.stage = "error" /\ syncProgress'.error = ValidationError]_vars

InvalidSettingsNeverStartWitness ==
    /\ SettingsInvalid
    /\ cfg.selectedRoot /\ cfg.uploadEnabled
    /\ syncProgress.stage = "error"
    /\ syncProgress.error = "Pick a local folder to sync first."

OpenHandles == {r \in RunIds : runs[r].handleOpen}

(* A handle is open only while its candidate is being uploaded, and the    *)
(* request in flight is a chunk of that candidate.                         *)
HandleScoped ==
    \A r \in RunIds :
        /\ runs[r].handleOpen => runs[r].pc \in UploadPcs
        /\ runs[r].pc = "chunk_post" =>
              /\ runs[r].handleOpen
              /\ runs[r].req.item = buildStatusPayload(CurrentCandidate(runs[r]),
                                                       CurrentCandidate(runs[r]).overwrite)

(* The upload moves from a candidate to the next one of the planned list, *)
(* or off the list, with the handle closed.                                *)
NextCandidateInOrder ==
    \A r \in RunIds :
        runs'[r].cidx # runs[r].cidx =>
            /\ ~runs'[r].handleOpen
            /\ runs'[r].cidx \in {0, runs[r].cidx + 1}

(* C22: uploads are sequential and in discovery order: at most one local   *)
(* file handle is open at any time, a chunk is posted only for the current *)
(* candidate with its handle open, and the handle is closed before the     *)
(* next candidate is taken and before the upload loop is left.             *)
SequentialUploads ==
    /\ [](Cardinality(OpenHandles) <= 1 /\ HandleScoped)
    /\ [][NextCandidateInOrder]_vars

PlanningPcs == {"perm", "page", "asset_info", "status_batch", "rename_probe"}

(* A batch status request carries between 1 and STATUS_BATCH_SIZE items;   *)
(* during planning the candidates enumerated so far are those sent in      *)
(* batches, in order and once each, followed by those still pending; a run *)
(* that has gone on to uploading has sent every enumerated candidate.      *)
BatchItemsSentOnce ==
    \A r \in RunIds :
        LET rn == runs[r]
        IN  /\ rn.pc = "status_batch" =>
                  /\ Len(rn.req.items) \in 1..STATUS_BATCH_SIZE
                  /\ Len(rn.req.items) = Len(rn.batch)
            /\ rn.pc \in PlanningPcs =>
                  /\ rn.enumerated = rn.sent \o rn.pending
                  /\ rn.source = "folder" =>
                        rn.enumerated = SubSeq(rn.folderCandidates, 1, rn.findex)
            /\ rn.pc \notin PlanningPcs \cup {"idle"} => rn.sent = rn.enumerated

LeavesPlanningWithAllSent ==
    \A r \in RunIds :
        (/\ runs[r].pc \in PlanningPcs
         /\ runs'[r].pc \notin PlanningPcs \cup {"idle"}
         /\ runs[r].source = "folder") => runs'[r].sent = runs[r].folderCandidates

(* C23 (amended): every batch status request carries between 1 and        *)
(* STATUS_BATCH_SIZE items, and a run that completes planning (it is not   *)
(* cancelled and none of its requests throws) has sent every enumerated    *)
(* candidate in exactly one batch; in a folder run these are all the files *)
(* the scan returned.                                                      *)
BatchesCoverEnumerated == []BatchItemsSentOnce /\ [][LeavesPlanningWithAllSent]_vars

(* A run that is not cancelled leaves planning, whether it goes on or      *)
(* ends, with no enumerated candidate left unsent; a failed batch request  *)
(* leaves none either, its candidates having been sent.                    *)
PlanningEndsWithNothingPending ==
    \A r \in RunIds :
        (/\ runs[r].pc \in PlanningPcs
         /\ runs'[r].pc \notin PlanningPcs
         /\ ~cancelRef) => runs[r].pending = <<>>

(* C23: every batch status request carries between 1 and STATUS_BATCH_SIZE *)
(* items, and in a run that is not cancelled and in which no batch request *)
(* fails every enumerated candidate is sent in exactly one batch status    *)
(* request.                                                                *)
BatchesCoverEveryRun == []BatchItemsSentOnce /\ [][PlanningEndsWithNothingPending]_vars

BatchesCoverEnumeratedWitness ==
    \E r \in RunIds :
        /\ runs[r].pc = "open"
        /\ Len(runs[r].enumerated) = STATUS_BATCH_SIZE + 1
        /\ runs[r].sent = runs[r].enumerated

(* C24: in a folder run with mirror mode no delete request names the       *)
(* remote target of a file that exists under the local folder, the files   *)
(* counted failed by the scan (in a directory that could not be listed, or *)
(* with an invalid size) included.                                         *)
MirrorKeepsLocalFiles ==
    \A r \in RunIds :
        runs[r].pc = "mirror_delete" =>
            SeqToSet(runs[r].req.paths) \cap runs[r].localExisting = {}

(* Where a planned candidate is uploaded to: the remote target of a folder *)
(* candidate, the month bucket and the file name of a camera candidate.    *)
Destination(candidate) ==
    IF candidate.kind = "folder" THEN <<"folder", candidate.remoteTarget>>
    ELSE <<"camera", candidate.monthBucket, candidate.displayName>>

(* C25: no two candidates planned in the same run have the same remote     *)
(* destination, renamed candidates included.                               *)
PlannedDestinationsDistinct ==
    \A r \in RunIds :
        \A i, j \in 1..Len(runs[r].candidates) :
            i # j => Destination(runs[r].candidates[i]) # Destination(runs[r].candidates[j])

(* A run goes on from planning in this step: it was not cancelled and no   *)
(* request of its planning failed.                                         *)
EntersUploading(r) ==
    /\ runs[r].pc \in PlanningPcs \cup {"idle"}
    /\ runs'[r].pc \notin PlanningPcs \cup {"idle"}

SumOfOutcomes(sp) == sp.planned + sp.skipped + sp.failed

(* C26: when a run that was not cancelled leaves planning and enters       *)
(* uploading, discovered = planned + skipped + failed, for the camera and  *)
(* for the folder source.                                                  *)
DiscoveredAccounted ==
    [][\A r \in RunIds :
         EntersUploading(r) => syncProgress'.discovered = SumOfOutcomes(syncProgress')]_vars

(* C26 (amended): when a run that was not cancelled leaves planning and    *)
(* enters uploading, planned + skipped + failed = discovered + the number  *)
(* of directories the folder scan could not list; a camera run has none.   *)
DiscoveredAndUnlistedAccounted ==
    [][\A r \in RunIds :
         EntersUploading(r) =>
            /\ SumOfOutcomes(syncProgress') = syncProgress'.discovered + runs'[r].unlisted
            /\ cfg.syncSource = "camera" => runs'[r].unlisted = 0]_vars

DiscoveredAndUnlistedAccountedWitness ==
    \E r \in RunIds :
        /\ runs[r].pc = "open"
        /\ runs[r].unlisted = 1
        /\ syncProgress.stage = "uploading"
        /\ syncProgress.planned = 1
        /\ SumOfOutcomes(syncProgress) = syncProgress.discovered + 1

(* C27: whenever a run ends in stage done, uploaded equals planned, and    *)
(* uploaded never exceeds planned at any point of a run.                   *)
UploadedEqualsPlanned ==
    /\ syncProgress.uploaded <= syncProgress.planned
    /\ syncProgress.stage = "done" => syncProgress.uploaded = syncProgress.planned
    /\ \A r \in RunIds :
          /\ runs[r].pc \in UploadPcs => runs[r].uploaded <= runs[r].nplanned
          /\ runs[r].counted # <<>> =>
                /\ runs[r].counted.uploaded <= runs[r].counted.planned
                /\ syncProgress.stage = "done" =>
                      runs[r].counted.uploaded = runs[r].counted.planned

(* The bytes left to send for the candidates of a planned list. *)
RECURSIVE BytesToSend(_)
BytesToSend(candidates) ==
    IF candidates = <<>> THEN 0
    ELSE Head(candidates).size - Head(candidates).initialOffset + BytesToSend(Tail(candidates))

PlannedBytesIsSum ==
    \A r \in RunIds :
        runs[r].pc \in PlanningPcs \cup UploadPcs =>
            /\ runs[r].plannedBytes = BytesToSend(runs[r].candidates)
            /\ \A i \in 1..Len(runs[r].candidates) :
                  /\ 0 <= runs[r].candidates[i].initialOffset
                  /\ runs[r].candidates[i].initialOffset <= runs[r].candidates[i].size

(* C28: at every point of a run uploadedBytes <= plannedBytes, whatever    *)
(* offsets the server reports in chunk responses and in the recovery, and  *)
(* plannedBytes is the sum over the planned candidates of size minus       *)
(* initialOffset, with 0 <= initialOffset <= size.                         *)
UploadedBytesBounded ==
    /\ PlannedBytesIsSum
    /\ syncProgress.uploadedBytes <= syncProgress.plannedBytes
    /\ \A r \in RunIds :
          runs[r].pc \in UploadPcs => runs[r].uploadedBytes <= runs[r].plannedBytes

(***************************************************************************)
(* C30.  While a run is planning, uploading or mirroring, the stage of     *)
(* SyncProgress is written only by the run itself: a step of another       *)
(* handler (cancelSync, pickSyncFolder, a render) leaves the stage as it   *)
(* is and cancelSync changes nothing of SyncProgress but the message, so   *)
(* the stage is never error while a run is still in one of these phases.   *)
(***************************************************************************)
RunInProgress ==
    \E r \in RunIds : runs[r].pc \in PlanningPcs \cup UploadPcs \cup MirrorPcs

OtherHandlerKeepsStage ==
    (RunInProgress /\ runs' = runs) =>
        /\ syncProgress'.stage = syncProgress.stage
        /\ (cancelRef' # cancelRef => syncProgress' = syncProgress)

StageWrittenOnlyByRun ==
    /\ [](RunInProgress => syncProgress.stage # "error")
    /\ [][OtherHandlerKeepsStage]_vars

(***************************************************************************)
(* C29.  When every awaited call returns, a run that has started ends:     *)
(* SyncProgress reaches stage done, error or cancelled and syncRunning is  *)
(* false again.  On the way each iteration of the chunk loop leaves the    *)
(* local offset strictly greater or ends the loop, and a remote directory  *)
(* is asked for a further page, at a greater offset, only after a full     *)
(* page.                                                                   *)
(***************************************************************************)
ChunkLoopAdvances ==
    \A r \in RunIds :
        (runs[r].pc \in {"chunk_post", "recover_status"} /\ runs'[r].pc = "read"
            /\ runs'[r].cidx = runs[r].cidx)
           => runs'[r].offset > runs[r].offset

ListingStopsAfterShortPage ==
    \A r \in RunIds :
        (runs[r].pc = "mirror_list" /\ runs'[r].pc = "mirror_list"
            /\ runs'[r] # runs[r]) =>
            LET items == listPage(world.remoteTree, runs[r].req.path, runs[r].req.offset)
            IN  IF Len(items) < LIST_PAGE_SIZE
                THEN runs'[r].req.path # runs[r].req.path /\ runs'[r].req.offset = 0
                ELSE /\ runs'[r].req.path = runs[r].req.path
                     /\ runs'[r].req.offset = runs[r].req.offset + Len(items)

RunEnded(r) ==
    /\ runs[r].pc = "idle"
    /\ syncProgress.stage \in Terminal
    /\ ~state.syncRunning

EveryRunTerminates ==
    /\ \A r \in RunIds : (runs[r].pc # "idle") ~> RunEnded(r)
    /\ [][ChunkLoopAdvances /\ ListingStopsAfterShortPage]_vars

EveryRunTerminatesWitness ==
    /\ RunEnded(1)
    /\ syncProgress.stage = "done"
    /\ syncProgress.uploaded >= 1
    /\ syncProgress.uploadedBytes > ChunkBytes
    /\ syncProgress.remoteDeleted >= 1
====
